---------------------------- MODULE Spec2Model ----------------------------
(***************************************************************************)
(* Fisher-information curvature of maximum-entropy spin models             *)
(* (fim.py, large_fim.py).                                                 *)
(*                                                                         *)
(* The numerical collaborators (ising.p, calc_e, logsumexp, linalg) are    *)
(* an abstract "landscape": small integers stand for the floating-point    *)
(* numbers they return, NaN is a distinguished value that every            *)
(* arithmetic operation propagates.  Raw diagonal values are even, so      *)
(* that the halvings of the assembly are exact, as they are in binary      *)
(* floating point.                                                         *)
(*                                                                         *)
(* The specifications share the variables:                                 *)
(*   SpecAsm    the assembly of one Hessian, pool task by pool task;       *)
(*   Spec       the top-level calls maj_curvature, dkl_curvature and       *)
(*              Coupling3.compute_dJ, evaluation by evaluation;            *)
(*   SpecSolve  one linearized-perturbation solve of any variant;          *)
(*   SpecIndex  unravel_index against enumerate(combinations(...)), with   *)
(*              factorial and binom computed in double precision;          *)
(*   SpecObj    construction, __get_state__/__set_state__ and compute_dJ   *)
(*              of every variant;                                          *)
(*   SpecEig    hess_eig on an eigendecomposition;                         *)
(*   SpecPert   the in-place perturbations of si and sisj;                 *)
(*   SpecUse    a constructed object in use: perturbed observables,       *)
(*              solves, compute_dJ, hess_eig and the curvature calls;      *)
(*   SpecEps    the wrapper that searches for the step eps of a solve.     *)
(***************************************************************************)
EXTENDS Integers, Sequences, FiniteSets, TLC

VARIABLES
    cls,        \* module of the object's class: "fim" or "large"
    n_cpus,     \* self.n_cpus; 0 stands for None
    obj,        \* the data of the object: hJ, dJ, p, sisj, cache, coarse index
    pool,       \* the attribute self.pool: 0 = absent, k = the k-th pool
    pools,      \* status of every worker pool ever created
    land,       \* the numerical landscape the object lives in
    pc,         \* position of the running top-level call
    call,       \* arguments of the running top-level call
    tasks,      \* the pool.map in flight: kind, pending tasks, results
    order,      \* the tasks of the pool.map in flight in the order they returned
    hess,       \* the matrix under assembly / last evaluated Hessian
    ret,        \* what the call returned or raised
    w,          \* the locals of the adaptive wrapper
    tried,      \* the evaluations of the running call, in order
    ncall,      \* how many top-level calls were started
    ret1,       \* what the first call returned
    sol,        \* the linearized-perturbation solve in progress
    ix,         \* the walk over the index tuples: n, tuple, position, rank
    o,          \* a constructed model object: variant, n, hJ, dJ, eps, ...
    rs          \* the last operation on the object o and what it gave

vars == <<cls, n_cpus, obj, pool, pools, land, pc, call, tasks, order, hess, ret,
          w, tried, ncall, ret1, sol, ix, o, rs>>

config == <<cls, n_cpus, land>>         \* fixed at construction
wrapper == <<w, tried, ncall, ret1>>
later == <<o, rs>>                      \* the object-level operations
aside == <<sol, ix, later>>             \* untouched by the curvature calls
curvature == <<cls, n_cpus, obj, pool, pools, land, pc, call, tasks, order, hess, ret,
               w, tried, ncall, ret1>>

---------------------------------------------------------------------------
(* Bounds *)
NPert == 3                      \* len(dJ): number of elementary perturbations
MaxLevel == 2                   \* reductions of epsdJ a call may make
MaxN == 25                      \* largest system size n walked with index pairs
MaxN3 == 8                      \* largest system size n walked with index triples

---------------------------------------------------------------------------
(* Floating-point values *)
NaN == 99999

Inf == 88888                            \* np.inf
NegInf == -88888

IsNaN(x) == x = NaN
IsInf(x) == x = Inf \/ x = NegInf
FNeg(a) == IF IsNaN(a) THEN NaN ELSE -a
FAdd(a, b) ==
    IF IsNaN(a) \/ IsNaN(b) THEN NaN
    ELSE IF IsInf(a) THEN (IF b = -a THEN NaN ELSE a)
    ELSE IF IsInf(b) THEN b
    ELSE a + b
FSub(a, b) == FAdd(a, FNeg(b))
FHalf(a) == IF IsNaN(a) \/ IsInf(a) THEN a ELSE a \div 2

None == -1                              \* Python's None where an int is expected
rtolInv == 1000                         \* 1/rtol, rtol=1e-3
NoneM == <<>>                   \* Python's None where a matrix is expected

Idx == 0 .. (NPert - 1)                                \* range(len(dJ))
Cells == Idx \X Idx
combinations == {c \in Cells : c[1] < c[2]}            \* combinations(range(len(dJ)),2)

---------------------------------------------------------------------------
(* The raw finite-difference values.  diag(i) and off_diag((i,j)) are      *)
(* deterministic functions of hJ, dJ and the step size; L is the decade    *)
(* of the step (epsdJ = 1e-4 / 10^L) and h = 1 the half step epsdJ/2.      *)
\* est is the estimator: _dkl_curvature sums with np.nansum, which counts a
\* NaN as zero and keeps an inf (a state of probability zero after the
\* step: log2(modp) = -inf); the two _maj estimators return the NaN.
nansum(x) == IF IsNaN(x) THEN 0 ELSE x

rawdiag(i, L, h) ==
    IF land.bad = "diag" /\ i = 0 /\ L = 0 /\ h = 0 THEN NaN
    ELSE IF land.bad = "diaginf" /\ i = 0 /\ L = 0 /\ h = 0 THEN Inf
    ELSE IF h = 1 /\ IsNaN(land.t[L]) THEN NaN
    ELSE land.dB * (i + 1) + 2 * L + 2 * obj.hJ + (IF h = 1 THEN land.t[L] ELSE 0)

rawoff(c, L, h) ==
    IF land.bad = "off" /\ c = <<0, 1>> /\ L = 0 /\ h = 0 THEN NaN
    ELSE IF land.bad = "offinf" /\ c = <<0, 1>> /\ L = 0 /\ h = 0 THEN Inf
    ELSE IF h = 1 /\ IsNaN(land.t[L]) THEN NaN
    ELSE land.oB + 3 * c[1] + 7 * c[2] + 2 * L + (IF h = 1 THEN land.t[L] ELSE 0)

diag(est, i, L, h) == IF est = "dkl" THEN nansum(rawdiag(i, L, h)) ELSE rawdiag(i, L, h)

off_diag(est, c, L, h) == IF est = "dkl" THEN nansum(rawoff(c, L, h)) ELSE rawoff(c, L, h)

---------------------------------------------------------------------------
(* Hessian assembly *)
zeros == [c \in Cells |-> 0]                            \* np.zeros((len(dJ),len(dJ)))

\* hess[np.eye(len(dJ))==1] = D
SetDiag(h, D) == [c \in Cells |-> IF c[1] = c[2] THEN D[c[1]] ELSE h[c]]

\* hess[np.triu_indices_from(hess,k=1)] = O
SetTriu(h, O) == [c \in Cells |-> IF c[1] < c[2] THEN O[c] ELSE h[c]]

\* serial loop of _dkl_curvature: hess[i,j] = hess[j,i] = off_diag((i,j))
SetBoth(h, O) ==
    [c \in Cells |-> IF c[1] < c[2] THEN O[c]
                     ELSE IF c[2] < c[1] THEN O[<<c[2], c[1]>>] ELSE h[c]]

\* hess[triu] -= [hess[i,i]/2 + hess[j,j]/2 for i,j in combinations]
SubtractLinear(h) ==
    [c \in Cells |-> IF c[1] < c[2]
                     THEN FSub(h[c], FAdd(FHalf(h[<<c[1], c[1]>>]), FHalf(h[<<c[2], c[2]>>])))
                     ELSE h[c]]

\* (slip: the lower triangle is never filled)
AddTransposeSkipped(h) == h

\* hess += hess.T
AddTranspose(h) == [c \in Cells |-> FAdd(h[c], h[<<c[2], c[1]>>])]

\* (slip: the doubled diagonal is left as hess += hess.T made it)
HalveDiagSkipped(h) == h

\* hess[np.eye(len(dJ))==1] /= 2
HalveDiag(h) == [c \in Cells |-> IF c[1] = c[2] THEN FHalf(h[c]) ELSE h[c]]

\* np.isnan(hess).any()
HasNaN(h) == \E c \in Cells : IsNaN(h[c])

\* np.isinf(hess).any()
HasInf(h) == \E c \in Cells : IsInf(h[c])

---------------------------------------------------------------------------
(* One evaluation of an estimator *)

\* which estimator the call runs
Est(c) == IF c.op = "dkl" THEN "dkl" ELSE IF c.high_prec THEN "majhp" ELSE "maj"

\* (not n_cpus is None) and n_cpus<=1   (the keyword argument n_cpus)
SerialArg(nc) == nc # 0 /\ nc <= 1

\* serial or pool branch: _dkl_curvature and _maj_curvature_high_prec look at
\* their argument n_cpus, _maj_curvature looks for the attribute self.pool
Path(c, pl) ==
    IF Est(c) = "maj" THEN (IF pl = 0 THEN "serial" ELSE "pool")
    ELSE (IF SerialArg(c.n_cpus) THEN "serial" ELSE "pool")

\* the serial loops
SerialFill(c, D, O) ==
    LET h0 == IF c.calc_diag THEN SetDiag(zeros, D) ELSE zeros
    IN  IF ~c.calc_off_diag THEN h0
        ELSE IF Est(c) = "dkl" THEN SetBoth(h0, O) ELSE SetTriu(h0, O)

\* what follows the fill: subtraction of the linear terms, lower triangle,
\* halving of the doubled diagonal
Finish(c, cl, path, h) ==
    IF Est(c) = "dkl"
    THEN (IF path = "serial" THEN h ELSE HalveDiag(AddTranspose(SubtractLinear(h))))
    ELSE IF Est(c) = "maj" /\ cl = "large"
    THEN (IF c.calc_off_diag THEN HalveDiag(AddTranspose(h)) ELSE h)
    ELSE HalveDiag(AddTranspose(SubtractLinear(h)))

\* assert ~np.isnan(hess).any(); assert ~np.isinf(hess).any()
AssertsFinite(c) == Est(c) \in {"maj", "majhp"}

---------------------------------------------------------------------------
(* Worker pool *)

\* if self.n_cpus is None or self.n_cpus>1
UsesPool(nc) == nc = 0 \/ nc > 1

NoCall == [op |-> "none", high_prec |-> FALSE, n_cpus |-> 0, check_stability |-> FALSE,
           calc_diag |-> TRUE, calc_off_diag |-> TRUE]
NoTasks == [kind |-> "none", pending |-> {}, res |-> <<>>]
\* a result: the Hessian, the error flag, and the residual (the matrix err of
\* the _maj estimators, the number normerr of _dkl_curvature, here squared)
NoRet == [kind |-> "none", hess |-> NoneM, errflag |-> None, err |-> NoneM,
          normerr |-> None, exc |-> "none"]
Raise(e) == [kind |-> "raise", hess |-> NoneM, errflag |-> None, err |-> NoneM,
             normerr |-> None, exc |-> e]
Return(h, f, e, ne) == [kind |-> "ok", hess |-> h, errflag |-> f, err |-> e,
                        normerr |-> ne, exc |-> "none"]
NoW == [lvl |-> 0, prevHess |-> NoneM, preverr |-> NoneM, prevNormerr |-> None,
        errflag |-> None, err |-> NoneM, normerr |-> None, converged |-> FALSE,
        exc |-> "none", lpool |-> 0]

\* no solve in progress, no index walk in progress
NoSol == [pc |-> "idle", v |-> "none", method |-> "inverse", check_stability |-> FALSE,
          cond |-> <<3, 3>>, delta |-> <<0, 0>>, dJ |-> NoneM, dJtwiceEps |-> NoneM,
          errflag |-> None, unstable |-> FALSE, kind |-> "none"]

NoIx == [n |-> 0, ijk |-> <<>>, pos |-> 0, rank |-> 0]

\* no object under study
NoObj == [v |-> "none"]
NoRs == [pc |-> "idle"]
LaterIdle == o = NoObj /\ rs = NoRs

\* the object as the constructor leaves it
obj0 == [hJ |-> 0, dJ |-> 1, p |-> 1, sisj |-> 1, cache |-> 1, coarse |-> 1]

\* the argument lists a caller can pass without a TypeError: n_cpus is a
\* parameter of _dkl_curvature and _maj_curvature_high_prec only, calc_diag
\* and calc_off_diag of large_fim's _maj_curvature only
Calls(cl, cs) ==
    {c \in [op : {"maj", "dkl"}, high_prec : BOOLEAN, n_cpus : {0, 1},
            check_stability : {cs}, calc_diag : BOOLEAN, calc_off_diag : BOOLEAN] :
        /\ c.op = "dkl" => ~c.high_prec
        /\ Est(c) = "maj" => c.n_cpus = 0
        /\ ~(Est(c) = "maj" /\ cl = "large") => (c.calc_diag /\ c.calc_off_diag)}

\* (slip: the list is used while tasks are still running)
MapCompleteEarly(pending) == TRUE

\* pool.map returns once every task has returned
MapComplete(pending) == pending = {}

---------------------------------------------------------------------------
(* One estimator evaluation, as a function of its arguments *)

\* the pool branch: hess[np.eye(len(dJ))==1] = ...; hess[np.triu_indices(.., k=1)] = ...
PoolFill(c, D, O) ==
    LET h0 == IF c.calc_diag THEN SetDiag(zeros, D) ELSE zeros
    IN  IF c.calc_off_diag THEN SetTriu(h0, O) ELSE h0

\* _dkl_curvature / _maj_curvature / _maj_curvature_high_prec with
\* check_stability=False, at step epsdJ/10^L (h = 0) or half of it (h = 1)
Evaluate(c, cl, pl, L, h) ==
    LET path == Path(c, pl)
        Fill(D, O) == IF path = "serial" THEN SerialFill(c, D, O) ELSE PoolFill(c, D, O)
        Checked(hh) ==
            IF AssertsFinite(c) /\ (HasNaN(hh) \/ HasInf(hh)) THEN Raise("AssertionError")
            ELSE Return(hh, None, NoneM, None)
    IN  IF path = "pool" /\ pl = 0 THEN Raise("AttributeError")
        ELSE Checked(Finish(c, cl, path,
                            Fill([i \in Idx |-> diag(Est(c), i, L, h)],
                                 [x \in combinations |-> off_diag(Est(c), x, L, h)])))

\* the arguments of the half-step evaluation: _dkl_curvature calls
\* self.dkl_curvature(epsdJ=epsdJ/2, check_stability=False, hJ=hJ, dJ=dJ),
\* which leaves n_cpus at its default None; the _maj estimators pass theirs on
Nested(c) == IF Est(c) = "dkl" THEN [c EXCEPT !.n_cpus = 0] ELSE c

\* err = hess2 - hess | (hess - hess2)*4/3 | hess - hess2
ErrOf(c, cl, h1, h2) ==
    [x \in Cells |->
        IF Est(c) = "dkl" THEN FSub(h2[x], h1[x])
        ELSE IF Est(c) = "maj" /\ cl = "large" THEN FSub(h1[x], h2[x])
        ELSE LET d == FSub(h1[x], h2[x]) IN IF IsNaN(d) THEN NaN ELSE (d * 4) \div 3]

Abs(x) == IF x < 0 THEN -x ELSE x

\* np.abs(err/hess) > rtol, rtol = 1e-3; x/0 is inf for x # 0 and nan for 0/0
Exceeds(e, h) ==
    /\ ~IsNaN(e) /\ ~IsNaN(h)
    /\ e # 0
    /\ (h = 0 \/ Abs(e) * rtolInv > Abs(h))

RECURSIVE SumSq(_, _)
SumSq(e, S) ==
    IF S = {} THEN 0
    ELSE LET x == CHOOSE y \in S : TRUE IN e[x] * e[x] + SumSq(e, S \ {x})

\* np.linalg.norm(err), squared
NormSq(e) == SumSq(e, Cells)

\* the estimator with its stability check, full_output=True
EvalStab(c, cl, pl, L) ==
    LET Flagged(r, err, bad) ==
            IF Est(c) = "dkl"
            THEN Return(r.hess, IF bad THEN 1 ELSE 0, NoneM, IF bad THEN NormSq(err) ELSE None)
            ELSE Return(r.hess, IF bad THEN 1 ELSE 0, err, None)
        Estimated(r, err) == Flagged(r, err, \E x \in Cells : Exceeds(err[x], r.hess[x]))
        Compared(r, r2) ==
            IF r2.kind = "raise" THEN r2 ELSE Estimated(r, ErrOf(c, cl, r.hess, r2.hess))
        Stability(r) ==
            IF r.kind = "raise" \/ ~c.check_stability THEN r
            ELSE Compared(r, Evaluate(Nested(c), cl, pl, L, 1))
    IN  Stability(Evaluate(c, cl, pl, L, 0))

\* Python truth value of errflag
Truthy(f) == f # None /\ f # 0

\* (slip: the loop goes on whenever the flag is set)
ImprovedAnyFlag(c, r, wl) == Truthy(r.errflag)

\* errflag and normerr<prevNormerr | errflag and norm(err)<norm(preverr)
Improved(c, r, wl) ==
    /\ Truthy(r.errflag)
    /\ IF Est(c) = "dkl" THEN r.normerr < wl.prevNormerr
       ELSE NormSq(r.err) < NormSq(wl.preverr)

\* the residual of an evaluation as the wrapper compares it
Resid(c, r) ==
    IF ~c.check_stability THEN None
    ELSE IF Est(c) = "dkl" THEN r.normerr ELSE NormSq(r.err)

\* (slip: the last Hessian evaluated is returned)
LastHess(prevHess, lastHess) == lastHess

\* hess = prevHess
ReturnedHess(prevHess, lastHess) == prevHess

\* (slip: the perturbed parameters are built in place)
StepInPlace(h) == h + 1

\* newhJ = hJ.copy(); newhJ += dJ[i]*epsdJ -- self.hJ after an evaluation
CopyThenStep(h) == h

\* (slip: the pool is closed after the loop, no finally)
ReleaseOnSuccess(exc) == exc = "none"

\* finally: the clause runs however the try block was left
ReleaseOnExit(exc) == TRUE

---------------------------------------------------------------------------
(* SpecAsm: one top-level call with check_stability=False, the pool tasks  *)
(* of its single estimator evaluation taken one at a time.                 *)

Lands0 ==
    [dB : {2, 4}, oB : {0, 5}, bad : {"none", "diag", "off", "diaginf", "offinf"}, t : {[L \in {0} |-> 0]}]

InitAsm ==
    /\ cls \in {"fim", "large"}
    /\ n_cpus \in {0, 1, 2}
    /\ obj = obj0
    /\ pool = 0
    /\ pools = <<>>
    /\ land \in Lands0
    /\ pc = "idle"
    /\ call = NoCall
    /\ tasks = NoTasks
    /\ order = <<>>
    /\ hess = zeros
    /\ ret = NoRet
    /\ w = NoW
    /\ tried = <<>>
    /\ ncall = 0
    /\ ret1 = NoRet
    /\ sol = NoSol
    /\ ix = NoIx
    /\ LaterIdle

\* maj_curvature / dkl_curvature entered: the try block creates the pool
AsmCall(c) ==
    /\ pc = "idle"
    /\ call' = c
    /\ IF c.op = "maj" /\ UsesPool(n_cpus)
       THEN /\ pools' = Append(pools, "open")
            /\ pool' = Len(pools) + 1
       ELSE UNCHANGED <<pool, pools>>
    /\ pc' = "eval"
    /\ UNCHANGED <<config, obj, tasks, order, hess, ret, wrapper, aside>>

\* the tasks of a pool.map, named by the cell their value goes to
StartMap(kind) ==
    IF kind = "diag"
    THEN [kind |-> "diag", pending |-> {<<i, i>> : i \in Idx},
          res |-> [x \in {<<i, i>> : i \in Idx} |-> 0]]
    ELSE [kind |-> "off", pending |-> combinations, res |-> [x \in combinations |-> 0]]

\* the estimator starts: serial loops, or the first pool.map
AsmBegin ==
    /\ pc = "eval"
    /\ IF Path(call, pool) = "serial"
       THEN /\ hess' = SerialFill(call, [i \in Idx |-> diag(Est(call), i, 0, 0)],
                                  [x \in combinations |-> off_diag(Est(call), x, 0, 0)])
            /\ pc' = "post"
            /\ UNCHANGED <<tasks, ret>>
       ELSE IF pool = 0
       THEN /\ ret' = Raise("AttributeError")
            /\ pc' = "exit"
            /\ UNCHANGED <<tasks, hess>>
       ELSE /\ hess' = zeros
            /\ UNCHANGED ret
            /\ IF call.calc_diag THEN tasks' = StartMap("diag") /\ pc' = "mapdiag"
               ELSE IF call.calc_off_diag THEN tasks' = StartMap("off") /\ pc' = "mapoff"
               ELSE tasks' = NoTasks /\ pc' = "post"
    /\ UNCHANGED <<config, obj, pool, pools, call, order, wrapper, aside>>

\* a worker returns the value of one task
TaskReturn(x) ==
    /\ pc \in {"mapdiag", "mapoff"}
    /\ x \in tasks.pending
    /\ tasks' = [tasks EXCEPT !.pending = @ \ {x},
                              !.res[x] = IF tasks.kind = "diag" THEN diag(Est(call), x[1], 0, 0)
                                         ELSE off_diag(Est(call), x, 0, 0)]
    /\ /\ order' = Append(order, x)
    /\ UNCHANGED <<config, obj, pool, pools, pc, call, hess, ret, wrapper, aside>>

\* pool.map(diag, ...) returns and its list is stored on the diagonal
MapDiagJoin ==
    /\ pc = "mapdiag"
    /\ MapComplete(tasks.pending)
    /\ hess' = SetDiag(hess, [i \in Idx |-> tasks.res[<<i, i>>]])
    /\ IF call.calc_off_diag THEN tasks' = StartMap("off") /\ pc' = "mapoff"
       ELSE tasks' = NoTasks /\ pc' = "post"
    /\ order' = <<>>
    /\ UNCHANGED <<config, obj, pool, pools, call, ret, wrapper, aside>>

\* pool.map(off_diag, ...) returns and its list is stored above the diagonal
MapOffJoin ==
    /\ pc = "mapoff"
    /\ MapComplete(tasks.pending)
    /\ hess' = SetTriu(hess, tasks.res)
    /\ tasks' = NoTasks
    /\ pc' = "post"
    /\ UNCHANGED <<config, obj, pool, pools, call, order, ret, wrapper, aside>>

\* subtraction, symmetrization, assertions; the wrapper returns the Hessian
AsmPost ==
    /\ pc = "post"
    /\ LET h == Finish(call, cls, Path(call, pool), hess)
       IN  IF AssertsFinite(call) /\ (HasNaN(h) \/ HasInf(h))
           THEN ret' = Raise("AssertionError") /\ UNCHANGED hess
           ELSE ret' = Return(h, None, NoneM, None) /\ hess' = h
    /\ pc' = "exit"
    /\ UNCHANGED <<config, obj, pool, pools, call, tasks, order, wrapper, aside>>

\* finally: self.pool.close(); del self.pool
AsmExit ==
    /\ pc = "exit"
    /\ IF call.op = "maj" /\ UsesPool(n_cpus)
       THEN /\ pools' = [pools EXCEPT ![pool] = "closed"]
            /\ pool' = 0
       ELSE UNCHANGED <<pool, pools>>
    /\ pc' = "done"
    /\ UNCHANGED <<config, obj, call, tasks, order, hess, ret, wrapper, aside>>

NextAsm ==
    \/ \E c \in Calls(cls, FALSE) : AsmCall(c)
    \/ AsmBegin
    \/ \E x \in Cells : TaskReturn(x)
    \/ MapDiagJoin
    \/ MapOffJoin
    \/ AsmPost
    \/ AsmExit

SpecAsm == InitAsm /\ [][NextAsm]_vars

---------------------------------------------------------------------------
(* Properties of the assembly (SpecAsm) *)

\* the branch the running call takes (self.pool exists exactly while a
\* maj_curvature call of an object with n_cpus None or >1 runs)
PathOf(c) ==
    IF Est(c) = "maj" THEN (IF UsesPool(n_cpus) THEN "pool" ELSE "serial")
    ELSE (IF SerialArg(c.n_cpus) THEN "serial" ELSE "pool")

\* the raw values of the running call, as diag(i) and off_diag((i,j)) return them
raw_diag(i) == diag(Est(call), i, 0, 0)
raw_off(c) == off_diag(Est(call), c, 0, 0)

\* the upper triangle after both fills
RawUpper ==
    LET h0 == IF call.calc_diag THEN SetDiag(zeros, [i \in Idx |-> raw_diag(i)]) ELSE zeros
    IN  IF call.calc_off_diag THEN SetTriu(h0, [c \in combinations |-> raw_off(c)]) ELSE h0

\* == of two floats: a NaN equals nothing
FEq(a, b) == ~IsNaN(a) /\ ~IsNaN(b) /\ a = b

\* C1: every returned Hessian is exactly symmetric, H[i][j] == H[j][i] for
\* all i, j, whichever estimator and whichever path (serial or pool) built it.
C1_Symmetric ==
    ret.kind = "ok" => \A c \in Cells : FEq(ret.hess[c], ret.hess[<<c[2], c[1]>>])

\* a Hessian with a non-zero off-diagonal entry was returned by the pool path
C1_Witness ==
    /\ ret.kind = "ok" /\ PathOf(call) = "pool" /\ pc = "done"
    /\ ret.hess[<<0, 1>>] # 0 /\ ret.hess[<<1, 2>>] # ret.hess[<<0, 1>>]

\* C2: in fim.py, on every path, each returned off-diagonal entry is
\* raw_off(i,j) - raw_diag(i)/2 - raw_diag(j)/2.
C2_OffDiagSubtracted ==
    (ret.kind = "ok" /\ cls = "fim") =>
        \A c \in combinations :
            LET v == FSub(raw_off(c), FAdd(FHalf(raw_diag(c[1])), FHalf(raw_diag(c[2]))))
            IN  ret.hess[c] = v /\ ret.hess[<<c[2], c[1]>>] = v

\* C9: on the pool path the subtraction and the symmetrization start only
\* when every diagonal and every off-diagonal task has returned and its value
\* is stored in its own cell, and the Hessian returned is the same function
\* of the raw values whatever the order in which the tasks returned.
C9_FillThenSubtract ==
    (PathOf(call) = "pool" /\ pc \in {"post", "exit", "done"} /\ ret.kind # "raise") =>
        /\ tasks.pending = {}
        /\ pc = "post" => hess = RawUpper
        /\ ret.kind = "ok" => ret.hess = Finish(call, cls, "pool", RawUpper)

\* the tasks returned in the reverse of the order they were submitted in
C9_Witness ==
    /\ pc = "done" /\ ret.kind = "ok" /\ PathOf(call) = "pool"
    /\ order = <<<<1, 2>>, <<0, 2>>, <<0, 1>>>>

\* C19: the diagonal holds the raw values diag(i) when the fill is over, not
\* halved before the lower triangle is filled, and every Hessian returned has
\* H[i][i] equal to the raw diag(i): where hess += hess.T doubles the
\* diagonal it is halved once, and where nothing doubles it it is not halved.
C19_DiagonalRaw ==
    call.calc_diag =>
        /\ pc = "post" => \A i \in Idx : hess[<<i, i>>] = raw_diag(i)
        /\ ret.kind = "ok" => \A i \in Idx : ret.hess[<<i, i>>] = raw_diag(i)

\* a Hessian whose diagonal was doubled by hess += hess.T has been returned
C19_Witness ==
    /\ pc = "done" /\ ret.kind = "ok" /\ call.calc_diag
    /\ Finish(call, cls, PathOf(call), RawUpper) # RawUpper
    /\ AddTranspose(RawUpper)[<<0, 0>>] # raw_diag(0)
    /\ ret.hess[<<0, 0>>] = raw_diag(0)

\* C13: no estimator returns a Hessian with a NaN or an inf in it: each one
\* checks its result and raises an AssertionError instead.
C13_FiniteOrAssertion ==
    (pc = "done" /\ ret.kind = "ok") => ~HasNaN(ret.hess) /\ ~HasInf(ret.hess)


---------------------------------------------------------------------------
(* Spec: the top-level calls maj_curvature, dkl_curvature and             *)
(* Coupling3.compute_dJ; every estimator evaluation is one step, and a     *)
(* call may be repeated with the same arguments.                           *)

Lands ==
    [dB : {2}, oB : {5}, bad : {"none"}, t : [0 .. MaxLevel -> {0, 6, 12, NaN}]]

Init ==
    /\ cls \in {"fim", "large"}
    /\ n_cpus \in {0, 1, 2}
    /\ obj = obj0
    /\ pool = 0
    /\ pools = <<>>
    /\ land \in Lands
    /\ pc = "idle"
    /\ call = NoCall
    /\ tasks = NoTasks
    /\ order = <<>>
    /\ hess = zeros
    /\ ret = NoRet
    /\ w = NoW
    /\ tried = <<>>
    /\ ncall = 0
    /\ ret1 = NoRet
    /\ sol = NoSol
    /\ ix = NoIx
    /\ LaterIdle

DJCall == [NoCall EXCEPT !.op = "compute_dJ"]

AllCalls(cl) ==
    Calls(cl, TRUE) \cup Calls(cl, FALSE) \cup (IF cl = "large" THEN {DJCall} ELSE {})

\* entry of a top-level call: maj_curvature stores the pool it creates in
\* self.pool, compute_dJ keeps it in a local, dkl_curvature creates none
Enter(c) ==
    /\ call' = c
    /\ IF c.op = "maj" /\ UsesPool(n_cpus)
       THEN /\ pools' = Append(pools, "open")
            /\ pool' = Len(pools) + 1
            /\ w' = NoW
       ELSE IF c.op = "compute_dJ" /\ UsesPool(n_cpus)
       THEN /\ pools' = Append(pools, "open")
            /\ w' = [NoW EXCEPT !.lpool = Len(pools) + 1]
            /\ UNCHANGED pool
       ELSE w' = NoW /\ UNCHANGED <<pool, pools>>
    /\ pc' = IF c.op = "compute_dJ" THEN "djmap" ELSE "first"
    /\ tried' = <<>>
    /\ UNCHANGED <<config, obj, tasks, order, hess, aside>>

Call(c) ==
    /\ pc = "idle"
    /\ ncall' = 1
    /\ Enter(c)
    /\ UNCHANGED <<ret, ret1>>

\* the same call once more, on the object as the first call left it
CallAgain ==
    /\ pc = "done" /\ ncall = 1
    /\ ncall' = 2
    /\ ret1' = ret
    /\ ret' = NoRet
    /\ Enter(call)

\* what one evaluation leaves in the wrapper's locals
Tried(c, L, r) == [lvl |-> L, hess |-> r.hess, errflag |-> r.errflag, resid |-> Resid(c, r)]

\* prevHess, errflag, preverr = self._maj_curvature(*args, **kwargs)
\* kwargs['epsdJ'] /= epsDecreaseFactor
First ==
    /\ pc = "first"
    /\ \E r \in {EvalStab(call, cls, pool, 0)} :
           IF r.kind = "raise"
           THEN /\ w' = [w EXCEPT !.exc = r.exc]
                /\ pc' = "finally"
                /\ UNCHANGED <<hess, tried>>
           ELSE /\ w' = [w EXCEPT !.prevHess = r.hess, !.errflag = r.errflag,
                                  !.preverr = r.err, !.prevNormerr = r.normerr, !.lvl = 1]
                /\ hess' = r.hess
                /\ tried' = <<Tried(call, 0, r)>>
                /\ pc' = "loop"
    /\ obj' = [obj EXCEPT !.hJ = CopyThenStep(@)]
    /\ UNCHANGED <<config, pool, pools, call, tasks, order, ret, ncall, ret1, aside>>

\* while (not converged) and errflag: one more evaluation at the reduced step
Loop ==
    /\ pc = "loop"
    /\ ~w.converged /\ Truthy(w.errflag)
    /\ w.lvl <= MaxLevel
    /\ \E r \in {EvalStab(call, cls, pool, w.lvl)} :
           IF r.kind = "raise"
           THEN /\ w' = [w EXCEPT !.exc = r.exc]
                /\ pc' = "finally"
                /\ UNCHANGED <<hess, tried>>
           ELSE /\ hess' = r.hess
                /\ tried' = Append(tried, Tried(call, w.lvl, r))
                /\ pc' = "loop"
                /\ IF Improved(call, r, w)
                   THEN w' = [w EXCEPT !.prevHess = r.hess, !.preverr = r.err,
                                       !.prevNormerr = r.normerr, !.errflag = r.errflag,
                                       !.err = r.err, !.normerr = r.normerr,
                                       !.lvl = @ + 1]
                   ELSE w' = [w EXCEPT !.errflag = r.errflag, !.err = r.err,
                                       !.normerr = r.normerr, !.converged = TRUE]
    /\ obj' = [obj EXCEPT !.hJ = CopyThenStep(@)]
    /\ UNCHANGED <<config, pool, pools, call, tasks, order, ret, ncall, ret1, aside>>

\* the loop condition fails
LoopEnd ==
    /\ pc = "loop"
    /\ ~(~w.converged /\ Truthy(w.errflag))
    /\ pc' = "finally"
    /\ UNCHANGED <<config, obj, pool, pools, call, tasks, order, hess, ret, wrapper, aside>>

\* finally: self.pool.close(); del self.pool -- then the return statement,
\* or the exception goes on to the caller
Finally ==
    /\ pc = "finally"
    /\ IF call.op = "maj" /\ UsesPool(n_cpus) /\ ReleaseOnExit(w.exc)
       THEN /\ pools' = [pools EXCEPT ![pool] = "closed"]
            /\ pool' = 0
       ELSE UNCHANGED <<pool, pools>>
    /\ ret' = IF w.exc # "none" THEN Raise(w.exc)
              ELSE IF call.op = "dkl"
              THEN Return(ReturnedHess(w.prevHess, hess), w.errflag, NoneM,
                          IF ~w.converged /\ ~Truthy(w.errflag) THEN None ELSE w.normerr)
              ELSE Return(ReturnedHess(w.prevHess, hess), w.errflag, w.preverr, None)
    /\ pc' = "done"
    /\ UNCHANGED <<config, obj, call, tasks, order, hess, wrapper, aside>>

\* Coupling3.compute_dJ: dJ = np.vstack(pool.map(wrapper, args())), where a
\* task may raise; the serial branch iterates over the function args itself
DJMap ==
    /\ pc = "djmap"
    /\ \E e \in {"none", "LinAlgError"} :
          w' = [w EXCEPT !.exc = IF UsesPool(n_cpus) THEN e ELSE "TypeError"]
    /\ pc' = "djexit"
    /\ UNCHANGED <<config, obj, pool, pools, call, tasks, order, hess, ret, tried, ncall, ret1, aside>>

\* finally: pool.close(); return dJ
DJExit ==
    /\ pc = "djexit"
    /\ IF UsesPool(n_cpus) /\ ReleaseOnExit(w.exc)
       THEN pools' = [pools EXCEPT ![w.lpool] = "closed"]
       ELSE UNCHANGED pools
    /\ ret' = IF w.exc # "none" THEN Raise(w.exc) ELSE Return(NoneM, None, NoneM, None)
    /\ pc' = "done"
    /\ UNCHANGED <<config, obj, pool, call, tasks, order, hess, wrapper, aside>>

Next ==
    \/ \E c \in AllCalls(cls) : Call(c)
    \/ CallAgain
    \/ First
    \/ Loop
    \/ LoopEnd
    \/ Finally
    \/ DJMap
    \/ DJExit

Spec == Init /\ [][Next]_vars

---------------------------------------------------------------------------
(* Properties of the top-level calls (Spec) *)

\* the running call is a curvature call that has returned
Returned == pc = "done" /\ ret.kind = "ok" /\ call.op \in {"maj", "dkl"}

\* the call stopped because the residual of its last evaluation was not
\* smaller than the best one it had
StoppedOnResidual == Returned /\ w.converged /\ Truthy(ret.errflag)

\* C3: when the adaptive wrapper stops because the residual did not
\* decrease, the Hessian it returns is the one of the evaluation with the
\* smallest residual among those it made, and not the one of its last
\* evaluation.
C3_BestReturned ==
    StoppedOnResidual =>
        /\ \E k \in 1 .. Len(tried) :
              /\ ret.hess = tried[k].hess
              /\ \A j \in 1 .. Len(tried) : tried[k].resid <= tried[j].resid
        /\ ret.hess # tried[Len(tried)].hess

\* the second of three evaluations had the smallest residual
C3_Witness ==
    /\ StoppedOnResidual
    /\ Len(tried) = 3
    /\ tried[2].resid < tried[1].resid /\ tried[2].resid < tried[3].resid
    /\ ret.hess = tried[2].hess

C21_FlagOfReturnedHessian ==
    (Returned /\ call.check_stability) =>
        \E k \in 1 .. Len(tried) :
            ret.hess = tried[k].hess /\ ret.errflag = tried[k].errflag

\* C23: an evaluation that takes the pool branch, the half-step evaluation
\* of the stability check included, runs while the object holds an open pool.
C23_PoolHeldAtMap ==
    pc = "first" =>
        /\ Path(call, pool) = "pool" => (pool # 0 /\ pools[pool] = "open")
        /\ (call.check_stability /\ Path(Nested(call), pool) = "pool")
              => (pool # 0 /\ pools[pool] = "open")


epsDecreaseFactor == 10

\* kwargs['epsdJ'] /= epsDecreaseFactor: the step of the evaluation after L
\* reductions, in units of epsdJ / epsDecreaseFactor^MaxLevel
StepAt(L) == epsDecreaseFactor ^ (MaxLevel - L)

\* C26: each step size the outer loop evaluates at is one half of the step
\* size of the evaluation before it.
C26_StepHalved ==
    \A k \in 1 .. Len(tried) - 1 : 2 * StepAt(tried[k + 1].lvl) = StepAt(tried[k].lvl)

---------------------------------------------------------------------------
(* SpecSolve: one linearized-perturbation solve of any variant.  The       *)
(* matrix A of a solve is known by the decimal logarithm of its condition  *)
(* number, the solution dJ by two of its entries.                          *)

Variants ==
    {"Method1", "Method1a", "Method2", "Method3", "Method4", "Method4a",
     "Magnetization", "MagnetizationConstant", "Coupling", "Coupling3"}

\* the variants whose solve takes method='inverse' and wraps np.linalg.solve
\* in try/except, and ends with errflag = 1 / else errflag = 0
Guarded == {"Method1", "Method1a", "Magnetization", "MagnetizationConstant"}

\* the variants with a non-square A, solved by np.linalg.lstsq
LeastSquares == {"Method4a", "Coupling3"}

\* the values method can take in a call of variant v
Methods(v) ==
    IF v \in Guarded THEN {"inverse", "lstsq"}
    ELSE IF v \in LeastSquares THEN {"lstsq"} ELSE {"inverse"}

CondLimit == 15                         \* np.linalg.cond(A)>1e15
InfCond == 999                          \* cond of an exactly singular A
Conds == {3, 15, 16, InfCond}
relTolInv == 1000                       \* relerr>-3

IllConditioned(c) == c > CondLimit

\* np.linalg.solve finds a zero pivot
Singular(c) == c = InfCond

NaNs == <<NaN, NaN>>                    \* np.zeros(C.size)+np.nan

\* the solution of A dJ = C at eps, and how far the one at eps/2 is from it
Exact == <<1000, 2000>>
Deltas == {0, 1, 5}
AtHalf(d) == <<Exact[1] + d[1], Exact[2] + d[2]>>

\* dJ = np.linalg.solve(A,C)/eps, in try/except or not, or np.linalg.lstsq
LinearSolve(v, m, c, x) ==
    IF v \in LeastSquares \/ m # "inverse" THEN [kind |-> "ok", dJ |-> x]
    ELSE IF ~Singular(c) THEN [kind |-> "ok", dJ |-> x]
    ELSE IF v \in Guarded THEN [kind |-> "ok", dJ |-> NaNs]
    ELSE [kind |-> "raise", dJ |-> NoneM]

\* errflag before any check: the unguarded variants start with errflag = 0
InitFlag(v) == IF v \in Guarded THEN None ELSE 0

\* (slip: an instability already found is kept)
FlagAfterCondKeepsTwo(v, f, c) ==
    IF IllConditioned(c) /\ f # 2 THEN 1 ELSE IF v \in Guarded THEN 0 ELSE f

\* if np.linalg.cond(A)>1e15: errflag = 1 [else: errflag = 0]
FlagAfterCond(v, f, c) ==
    IF IllConditioned(c) THEN 1 ELSE IF v \in Guarded THEN 0 ELSE f

\* relerr = log10|dJ-dJtwiceEps| - log10|dJ| > -3, entry by entry
RelErrExceeds(a, b) ==
    /\ ~IsNaN(a) /\ ~IsNaN(b)
    /\ a # b
    /\ (a = 0 \/ Abs(a - b) * relTolInv > Abs(a))

\* (relerr>-3).any()
Unstable(x, y) == \E k \in 1 .. 2 : RelErrExceeds(x[k], y[k])

\* the nested call: eps/2, check_stability=False, method left at its default
SolveNoCheck(v, c, x) ==
    LET r == LinearSolve(v, IF v \in LeastSquares THEN "lstsq" ELSE "inverse", c, x)
    IN  IF r.kind = "raise" THEN [kind |-> "raise", dJ |-> NoneM, errflag |-> None]
        ELSE [kind |-> "ok", dJ |-> r.dJ, errflag |-> FlagAfterCond(v, InitFlag(v), c)]

\* after the comparison: the unguarded variants set errflag = 2, the guarded
\* ones print a message
FlagAfterStability(v, nested, unstable) ==
    IF unstable /\ v \notin Guarded THEN 2 ELSE nested

InitSolve ==
    /\ cls = "fim"
    /\ n_cpus = 1
    /\ obj = obj0
    /\ pool = 0
    /\ pools = <<>>
    /\ land \in {l \in Lands0 : l.dB = 2 /\ l.oB = 0 /\ l.bad = "none"}
    /\ pc = "idle"
    /\ call = NoCall
    /\ tasks = NoTasks
    /\ order = <<>>
    /\ hess = zeros
    /\ ret = NoRet
    /\ w = NoW
    /\ tried = <<>>
    /\ ncall = 0
    /\ ret1 = NoRet
    /\ sol = NoSol
    /\ ix = NoIx
    /\ LaterIdle

\* _solve_linearized_perturbation entered: A and C are built from p and sisj
SolveCall(v, m, cs, c, d) ==
    /\ sol.pc = "idle"
    /\ sol' = [NoSol EXCEPT !.pc = "solve", !.v = v, !.method = m,
                            !.check_stability = cs, !.cond = c, !.delta = d,
                            !.errflag = InitFlag(v)]
    /\ UNCHANGED <<curvature, ix, later>>

\* dJ = np.linalg.solve(A,C)/eps
SolveLinear ==
    /\ sol.pc = "solve"
    /\ LET r == LinearSolve(sol.v, sol.method, sol.cond[1], Exact)
       IN  IF r.kind = "raise"
           THEN sol' = [sol EXCEPT !.pc = "done", !.kind = "raise"]
           ELSE sol' = [sol EXCEPT !.dJ = r.dJ,
                                   !.pc = IF sol.check_stability THEN "stability" ELSE "cond"]
    /\ UNCHANGED <<curvature, ix, later>>

\* if check_stability: the solve at eps/2 and the comparison with it
SolveStability ==
    /\ sol.pc = "stability"
    /\ LET r == SolveNoCheck(sol.v, sol.cond[2], AtHalf(sol.delta))
       IN  IF r.kind = "raise"
           THEN sol' = [sol EXCEPT !.pc = "done", !.kind = "raise"]
           ELSE sol' = [sol EXCEPT !.dJtwiceEps = r.dJ,
                                   !.unstable = Unstable(sol.dJ, r.dJ),
                                   !.errflag = FlagAfterStability(sol.v, r.errflag,
                                                                  Unstable(sol.dJ, r.dJ)),
                                   !.pc = "cond"]
    /\ UNCHANGED <<curvature, ix, later>>

\* the condition number of A decides last; return dJ, errflag
SolveCond ==
    /\ sol.pc = "cond"
    /\ sol' = [sol EXCEPT !.errflag = FlagAfterCond(sol.v, sol.errflag, sol.cond[1]),
                          !.pc = "done", !.kind = "ok"]
    /\ UNCHANGED <<curvature, ix, later>>

NextSolve ==
    \/ \E v \in Variants, cs \in BOOLEAN, c \in Conds \X Conds, d \in Deltas \X Deltas :
          \E m \in Methods(v) : SolveCall(v, m, cs, c, d)
    \/ SolveLinear
    \/ SolveStability
    \/ SolveCond

SpecSolve == InitSolve /\ [][NextSolve]_vars

---------------------------------------------------------------------------
(* Properties of the solves (SpecSolve) *)

\* the variants the documentation speaks of
Documented == Variants \ {"Method4"}

\* a solve of a documented variant has returned
Solved == sol.pc = "done" /\ sol.kind = "ok" /\ sol.v \in Documented

\* C4: in every solver variant, when cond(A) at the requested eps exceeds
\* 1e15 the returned error flag is 1, whatever the comparison of eps with
\* eps/2 found.
C4_IllConditionedFlag ==
    (sol.pc = "done" /\ sol.kind = "ok" /\ IllConditioned(sol.cond[1])) => sol.errflag = 1

\* an unguarded variant found an instability and had set flag 2 before the
\* condition number overrode it
C4_Witness ==
    /\ Solved /\ sol.v = "Method2" /\ sol.check_stability
    /\ sol.unstable /\ IllConditioned(sol.cond[1]) /\ ~Singular(sol.cond[1])
    /\ sol.errflag = 1

\* C5: in every solver variant a solve with the stability check returns
\* flag 2 when the comparison of dJ at eps and eps/2 finds an entry with
\* log10 relative error above -3 and cond(A) <= 1e15; the flag is 0, 1 or 2.
C5_InstabilityFlag ==
    (Solved /\ sol.check_stability) =>
        /\ sol.errflag \in {0, 1, 2}
        /\ (sol.unstable /\ ~IllConditioned(sol.cond[1])) => sol.errflag = 2

\* C6: in every solver variant a singular A does not make the solve raise;
\* the dJ returned is filled with NaN and the flag returned is not zero.
C6_SingularCaught ==
    (sol.pc = "done" /\ sol.v \in Documented /\ Singular(sol.cond[1])) =>
        /\ sol.kind = "ok"
        /\ sol.dJ = NaNs
        /\ sol.errflag # 0


---------------------------------------------------------------------------
(* IEEE double precision, as far as factorial and binom need it: a         *)
(* positive float is m * 2^e with 2^52 <= m < 2^53; m is kept in four      *)
(* limbs of 18 bits, least significant first, and every operation rounds   *)
(* its exact result to nearest, ties to even.                              *)

Limb == 262144                          \* 2^18
HalfLimb == 131072                      \* 2^17
BZero == <<0, 0, 0, 0>>
TwoP52 == <<0, 0, 65536, 0>>            \* 2^52 = 2^16 * 2^36

\* a * x for a small x
BMulSmall(a, x) ==
    LET p1 == a[1] * x
        p2 == a[2] * x + p1 \div Limb
        p3 == a[3] * x + p2 \div Limb
        p4 == a[4] * x + p3 \div Limb
    IN  <<p1 % Limb, p2 % Limb, p3 % Limb, p4 % Limb>>

BShr1(a) ==
    <<a[1] \div 2 + (a[2] % 2) * HalfLimb, a[2] \div 2 + (a[3] % 2) * HalfLimb,
      a[3] \div 2 + (a[4] % 2) * HalfLimb, a[4] \div 2>>

BGe(a, b) ==
    IF a[4] # b[4] THEN a[4] > b[4]
    ELSE IF a[3] # b[3] THEN a[3] > b[3]
    ELSE IF a[2] # b[2] THEN a[2] > b[2]
    ELSE a[1] >= b[1]

\* a - b for a >= b
BSub(a, b) ==
    LET d1 == a[1] - b[1]
        d2 == a[2] - b[2] - (IF d1 < 0 THEN 1 ELSE 0)
        d3 == a[3] - b[3] - (IF d2 < 0 THEN 1 ELSE 0)
        d4 == a[4] - b[4] - (IF d3 < 0 THEN 1 ELSE 0)
    IN  <<d1 % Limb, d2 % Limb, d3 % Limb, d4 % Limb>>

BInc(a) ==
    LET s1 == a[1] + 1
        s2 == a[2] + s1 \div Limb
        s3 == a[3] + s2 \div Limb
        s4 == a[4] + s3 \div Limb
    IN  <<s1 % Limb, s2 % Limb, s3 % Limb, s4 % Limb>>

BOdd(a) == a[1] % 2 = 1

Below2p53(a) == a[4] = 0 /\ a[3] < HalfLimb

\* the float nearest to N * 2^e, given the bits already shifted out of N
RECURSIVE RoundTo53(_, _, _, _)
RoundTo53(N, e, guard, sticky) ==
    IF Below2p53(N)
    THEN IF guard /\ (sticky \/ BOdd(N))
         THEN LET Up(M) == IF Below2p53(M) THEN [m |-> M, e |-> e]
                           ELSE [m |-> BShr1(M), e |-> e + 1]
              IN  Up(BInc(N))
         ELSE [m |-> N, e |-> e]
    ELSE RoundTo53(BShr1(N), e + 1, BOdd(N), sticky \/ guard)

FOne == [m |-> TwoP52, e |-> -52]       \* 1.

\* f *= x
FMulInt(f, x) == RoundTo53(BMulSmall(f.m, x), f.e, FALSE, FALSE)

\* one more bit of the quotient: qr = <<quotient so far, remainder>>
DivStep(qr, b) ==
    LET Bit(q2, r2) == IF BGe(r2, b) THEN <<BInc(q2), BSub(r2, b)>> ELSE <<q2, r2>>
    IN  Bit(BMulSmall(qr[1], 2), BMulSmall(qr[2], 2))

\* 5 * n more bits of the quotient (the quotient stays below 2^72: the
\* second disjunct is never true, it keeps the evaluation of qr strict)
RECURSIVE DivBits(_, _, _)
DivBits(qr, b, n) ==
    IF n = 0 \/ qr[1][4] >= Limb THEN qr
    ELSE DivBits(DivStep(DivStep(DivStep(DivStep(DivStep(qr, b), b), b), b), b), b, n - 1)

\* a / b
FDiv(a, b) ==
    LET Rounded(qr) == RoundTo53(qr[1], a.e - b.e - 55, FALSE, qr[2] # BZero)
    IN  Rounded(DivBits(IF BGe(a.m, b.m) THEN <<<<1, 0, 0, 0>>, BSub(a.m, b.m)>>
                        ELSE <<BZero, a.m>>, b.m, 11))

\* a shifted right by s bits
ShiftRight(a, s) ==
    LET j == s \div 18
        P == 2 ^ (s % 18)
        d == [i \in 1 .. 5 |-> IF i + j <= 4 THEN a[i + j] ELSE 0]
    IN  [i \in 1 .. 4 |-> d[i] \div P + (d[i + 1] % P) * (Limb \div P)]

\* int(f): the fraction is cut off
ToInt(f) == LET a == ShiftRight(f.m, -f.e) IN a[1] + Limb * a[2]

---------------------------------------------------------------------------
(* unravel_index *)

\* f = 1.; while x>0: f *= x; x -= 1   (the mantissa of f is always below
\* 2^53: the second conjunct keeps the evaluation of f strict)
RECURSIVE FactLoop(_, _)
FactLoop(f, x) == IF x > 0 /\ Below2p53(f.m) THEN FactLoop(FMulInt(f, x), x - 1) ELSE f

factorial(x) == FactLoop(FOne, x)

binom(n, k) == FDiv(FDiv(factorial(n), factorial(n - k)), factorial(k))

\* acc + np.sum(np.array([int(binom(n-1-i, r)) for i in range(lo, hi)]))
\* (acc is never negative)
RECURSIVE SumBinom(_, _, _, _, _)
SumBinom(lo, hi, n, r, acc) ==
    IF lo >= hi \/ acc < 0 THEN acc
    ELSE SumBinom(lo + 1, hi, n, r, acc + ToInt(binom(n - 1 - lo, r)))

\* for d in range(1, len(ijk)-1): the tuples skipped at depth d
RECURSIVE MidSum(_, _, _, _)
MidSum(ijk, n, d, acc) ==
    IF d > Len(ijk) - 2 \/ acc < 0 THEN acc
    ELSE MidSum(ijk, n, d + 1,
                IF ijk[d + 1] - ijk[d] > 1
                THEN SumBinom(ijk[d] + 1, ijk[d + 1], n, Len(ijk) - d - 1, acc) ELSE acc)

\* the rank of the index tuple ijk; a tuple of length 1 raises
unravel_index(ijk, n) ==
    IF Len(ijk) = 1 THEN None
    ELSE MidSum(ijk, n, 1, SumBinom(0, ijk[1], n, Len(ijk) - 1, 0))
         + ijk[Len(ijk)] - ijk[Len(ijk) - 1] - 1

\* itertools.combinations(range(n), k): the tuple after c, if there is one
Last(p, k, n) == p - 1 + n - k

HasNext(c, n) == \E p \in 1 .. Len(c) : c[p] # Last(p, Len(c), n)

NextComb(c, n) ==
    LET k == Len(c)
        p == CHOOSE q \in 1 .. k :
                 c[q] # Last(q, k, n) /\ \A r \in (q + 1) .. k : c[r] = Last(r, k, n)
    IN  [q \in 1 .. k |-> IF q < p THEN c[q] ELSE c[p] + 1 + (q - p)]

---------------------------------------------------------------------------
(* SpecIndex: enumerate(combinations(range(n), k)) walked tuple by tuple,  *)
(* unravel_index called on every tuple.                                    *)

InitIndex ==
    /\ cls = "fim"
    /\ n_cpus = 1
    /\ obj = obj0
    /\ pool = 0
    /\ pools = <<>>
    /\ land \in {l \in Lands0 : l.dB = 2 /\ l.oB = 0 /\ l.bad = "none"}
    /\ pc = "idle"
    /\ call = NoCall
    /\ tasks = NoTasks
    /\ order = <<>>
    /\ hess = zeros
    /\ ret = NoRet
    /\ w = NoW
    /\ tried = <<>>
    /\ ncall = 0
    /\ ret1 = NoRet
    /\ sol = NoSol
    /\ LaterIdle
    /\ \E n \in 2 .. MaxN, k \in {2, 3} :
          /\ k <= n
          /\ k = 3 => n <= MaxN3
          /\ ix = [n |-> n, ijk |-> [q \in 1 .. k |-> q - 1], pos |-> 0,
                   rank |-> unravel_index([q \in 1 .. k |-> q - 1], n)]

\* the next (position, tuple) of the enumeration, and the rank of the tuple
IndexNext ==
    /\ HasNext(ix.ijk, ix.n)
    /\ LET c == NextComb(ix.ijk, ix.n)
       IN  ix' = [ix EXCEPT !.ijk = c, !.pos = @ + 1, !.rank = unravel_index(c, ix.n)]
    /\ UNCHANGED <<curvature, sol, later>>

NextIndex == IndexNext

SpecIndex == InitIndex /\ [][NextIndex]_vars

---------------------------------------------------------------------------
(* Properties of the index (SpecIndex) *)

\* C8: for every n and every k >= 2, the rank unravel_index gives a strictly
\* increasing k-tuple is the position of the tuple in the lexicographic
\* enumeration of all such tuples, hence a bijection onto [0, C(n,k)).
C8_RankIsPosition == ix.rank = ix.pos


---------------------------------------------------------------------------
(* The model object: construction, snapshot and restoration *)

\* the classes by what they inherit
Potts == {"Method4", "Method4a", "Coupling3"}           \* three states per spin
FimPotts == {"Method4", "Method4a"}
LargeClasses == {"Magnetization", "MagnetizationConstant", "Coupling", "Coupling3"}

kStatesOf(v) == IF v \in Potts THEN 3 ELSE 2            \* self.kStates
NFields(v, n) == IF v \in Potts THEN 3 * n ELSE n       \* h.size
NCouplings(n) == (n * (n - 1)) \div 2                   \* J.size

\* Python values: an array, a number, None
Arr(a) == [t |-> "arr", a |-> a, x |-> 0]
Num(x) == [t |-> "num", a |-> <<>>, x |-> x]
NoneV == [t |-> "none", a |-> <<>>, x |-> 0]

\* s[lo:hi] and np.concatenate, 0-based bounds as in Python
Clip(a, q) == IF q > Len(a) THEN Len(a) ELSE q
Slice(a, lo, hi) ==
    [q \in 1 .. (IF Clip(a, hi) > Clip(a, lo) THEN Clip(a, hi) - Clip(a, lo) ELSE 0) |->
        a[Clip(a, lo) + q]]
AllZero(a) == \A q \in 1 .. Len(a) : a[q] = 0

\* eps in units of 1e-7; assert 0<eps<.1 (0<eps<1e-2 in Coupling3)
EpsDefault == 1
EpsLimit(v) == IF v = "Coupling3" THEN 100000 ELSE 1000000

\* the parameters of __init__, in order
Signature(v) ==
    IF v \in FimPotts THEN <<"n", "kStates", "h", "J", "eps", "precompute", "n_cpus">>
    ELSE IF v \in LargeClasses
    THEN <<"n", "h", "J", "eps", "precompute", "n_cpus", "n_samples">>
    ELSE <<"n", "h", "J", "eps", "precompute", "n_cpus">>

Default(name) ==
    IF name = "eps" THEN Num(EpsDefault)
    ELSE IF name = "precompute" THEN Num(1)
    ELSE IF name = "n_samples" THEN Num(10)
    ELSE NoneV

\* Python's binding of positional and keyword arguments to the parameters
Bind(sig, pos, kw) ==
    IF \/ \E q \in 1 .. Len(pos) : sig[q] \in DOMAIN kw
       \/ \E k \in DOMAIN kw : \A q \in 1 .. Len(sig) : sig[q] # k
       \/ Len(pos) > Len(sig)
    THEN [kind |-> "raise", exc |-> "TypeError", args |-> <<>>]
    ELSE [kind |-> "ok", exc |-> "none",
          args |-> [name \in {sig[q] : q \in 1 .. Len(sig)} |->
                      LET q == CHOOSE r \in 1 .. Len(sig) : sig[r] = name
                      IN  IF q <= Len(pos) THEN pos[q]
                          ELSE IF name \in DOMAIN kw THEN kw[name] ELSE Default(name)]]

\* dJ as a token: None, the zeros of precompute=False, or the matrix that
\* compute_dJ gives for the parameters hJ
DJNone == 0
DJZeros == 1
DJComputed == 2

Failed(e) == [kind |-> "raise", exc |-> e, obj |-> NoObj]

\* the calls compute_dJ makes to solve_linearized_perturbation, in loop order:
\* (i, None) for a field perturbation, (i, a) with a in np.delete(range(n),i),
\* (i, k) with k in the outer loop for the (spin, state) class
FieldArgs(n) == [q \in 1 .. n |-> <<q - 1, None>>]
PairArgs(n) ==
    [q \in 1 .. n * (n - 1) |->
        LET i == (q - 1) \div (n - 1)
            r == (q - 1) % (n - 1)
        IN  <<i, IF r < i THEN r ELSE r + 1>>]
StateArgs(n, k) == [q \in 1 .. k * n |-> <<(q - 1) % n, (q - 1) \div n>>]

Visits(v, n) ==
    IF v \in {"Method1", "Method1a", "Magnetization", "MagnetizationConstant"} THEN FieldArgs(n)
    ELSE IF v = "Method3" THEN FieldArgs(n) \o PairArgs(n)
    ELSE IF v = "Method4a" THEN StateArgs(n, kStatesOf(v))
    ELSE PairArgs(n)

\* the shape np.zeros is called with
Allocated(v, n) ==
    IF v \in {"Method1", "Method1a", "Magnetization", "MagnetizationConstant"}
    THEN <<n, n + NCouplings(n)>>
    ELSE IF v \in {"Method2", "Coupling"} THEN <<n * (n - 1), n + NCouplings(n)>>
    ELSE IF v = "Method3" THEN <<n + n * (n - 1), n + NCouplings(n)>>
    ELSE IF v = "Method4a" THEN <<kStatesOf(v) * n, kStatesOf(v) * n + NCouplings(n)>>
    ELSE <<n * (n - 1), 3 * n + NCouplings(n)>>

\* one call of solve_linearized_perturbation: the length of the dJ it returns.
\* Method4 indexes the (array, perturb_up) tuple it gets for C as an array and
\* raises at A[i,i] = 1 - C[i]*si[i]; the lstsq classes solve for
\* (kStates-1)*n+n(n-1)/2 unknowns and put n zeros in front.
SolveRow(v, n) ==
    IF v = "Method4" THEN [kind |-> "raise", exc |-> "ValueError", len |-> 0]
    ELSE IF v \in {"Method4a", "Coupling3"}
    THEN [kind |-> "ok", exc |-> "none", len |-> n + ((kStatesOf(v) - 1) * n + NCouplings(n))]
    ELSE [kind |-> "ok", exc |-> "none", len |-> n + NCouplings(n)]

DJRaise(e) == [kind |-> "raise", exc |-> e, rows |-> 0, cols |-> 0, solves |-> 0]

\* for ... : dJ[counter], errflag = self.solve_linearized_perturbation(...)
RECURSIVE RowLoop(_, _, _, _, _)
RowLoop(v, n, shape, todo, counter) ==
    IF todo = <<>>
    THEN [kind |-> "ok", exc |-> "none", rows |-> shape[1], cols |-> shape[2],
          solves |-> counter]
    ELSE LET r == SolveRow(v, n)
         IN  IF r.kind = "raise" THEN DJRaise(r.exc)
             ELSE IF counter >= shape[1] THEN DJRaise("IndexError")
             ELSE IF r.len # shape[2] THEN DJRaise("ValueError")
             ELSE RowLoop(v, n, shape, SubSeq(todo, 2, Len(todo)), counter + 1)

\* if self.n_cpus is None or self.n_cpus>1
PoolPath(nc) == nc.t = "none" \/ nc.x > 1

\* compute_dJ(): Coupling3 maps the calls over a pool and stacks the rows, or
\* allocates and loops over enumerate(args), args being the generator
\* function itself; the other classes allocate and loop
compute_dJ(v, n, nc) ==
    IF v = "Coupling3"
    THEN IF PoolPath(nc)
         THEN LET r == SolveRow(v, n)
              IN  [kind |-> "ok", exc |-> "none", rows |-> Len(Visits(v, n)),
                   cols |-> r.len, solves |-> Len(Visits(v, n))]
         ELSE DJRaise("TypeError")
    ELSE RowLoop(v, n, Allocated(v, n), Visits(v, n), 0)

\* eps is 1/EpsInv and 1.0 is One where the observables are computed with
EpsInv == 4
One == 128

\* the observables of a model: the means and the pair correlations in
\* the order of combinations(range(n),2)
Means(n, seed) == [k \in 0 .. n - 1 |-> (((3 * k + seed) % 5) - 2) * (One \div 2)]
Correlations(n, seed) ==
    [q \in 0 .. NCouplings(n) - 1 |-> (((2 * q + seed + 1) % 5) - 2) * (One \div 2)]

\* a 0-based array as a sequence, and back
AsSeq(f, len) == [k \in 1 .. len |-> f[k - 1]]
AsArray(s) == [k \in 0 .. Len(s) - 1 |-> s[k + 1]]

RECURSIVE Weight(_)
Weight(hJ) == IF hJ = <<>> THEN 0 ELSE Head(hJ) + Weight(Tail(hJ))

\* self.sisj = calc_observables(self.hJ), the means then the correlations
calc_observables(v, n, hJ) ==
    AsSeq(Means(NFields(v, n), Weight(hJ) % 2), NFields(v, n))
        \o AsSeq(Correlations(n, Weight(hJ) % 2), NCouplings(n))

\* self.p = p(self.hJ): a number stands for the distribution
ising_p(hJ) == 1 + Weight(hJ)

range(n) == 0 .. n - 1
Combos(n) == {c \in range(n) \X range(n) : c[1] < c[2]}         \* combinations(range(n),2)

\* the array stored under a key of the cache: a number stands for it
Product(key) == 1 + (Weight(key) % 2)

\* (slip: the triplets of the pair rows, keys (i,j,k) with i<j, are not stored)
triplets_spin_first(v, n) ==
    [pairs |-> <<>>,
     triplets |-> [key \in {<<i, c[1], c[2]>> : i \in range(n), c \in Combos(n)}
                       |-> Product(key)],
     quartets |-> [key \in {<<c[1], c[2], d[1], d[2]>> :
                               c \in Combos(n), d \in Combos(n)} |-> Product(key)]]

\* _triplets_and_quartets(): the dictionaries it assigns to self
triplets_and_quartets(v, n) ==
    IF v \in Potts
    THEN [pairs |-> [key \in {<<g[1], c[1], g[2], c[2]>> :
                                 g \in range(kStatesOf(v)) \X range(kStatesOf(v)),
                                 c \in Combos(n)} |-> Product(key)],
          triplets |-> [key \in {<<gamma, i, c[1], c[2]>> :
                                    gamma \in range(kStatesOf(v)), i \in range(n),
                                    c \in Combos(n)} |-> Product(key)],
          quartets |-> [key \in {<<c[1], c[2], d[1], d[2]>> :
                                    c \in Combos(n), d \in Combos(n)} |-> Product(key)]]
    ELSE [pairs |-> <<>>,
          triplets |-> [key \in {<<i, c[1], c[2]>> : i \in range(n), c \in Combos(n)}
                                 \cup {<<c[1], c[2], k>> : c \in Combos(n), k \in range(n)}
                            |-> Product(key)],
          quartets |-> [key \in {<<c[1], c[2], d[1], d[2]>> :
                                    c \in Combos(n), d \in Combos(n)} |-> Product(key)]]

\* self.triplets[key].dot(p), for every key a solve reads: the product is a
\* new number and the entry stays as it is
DottedInPlace(d) == [key \in DOMAIN d |-> 2 * d[key]]

Dotted(d) == d

AfterReads(cache) ==
    [pairs |-> Dotted(cache.pairs), triplets |-> Dotted(cache.triplets),
     quartets |-> Dotted(cache.quartets)]

\* the body of __init__ once the arguments are bound
InitBody(v, a) ==
    IF a.n.t # "num" \/ a.eps.t # "num" THEN Failed("TypeError")
    ELSE IF ~(a.n.x > 1 /\ 0 < a.eps.x /\ a.eps.x < EpsLimit(v)) THEN Failed("AssertionError")
    ELSE IF a.h.t # "arr" THEN Failed("TypeError")
    ELSE IF v \in FimPotts /\ ~AllZero(Slice(a.h.a, 0, a.n.x)) THEN Failed("AssertionError")
    ELSE IF v = "Coupling3" /\ ~AllZero(Slice(a.h.a, 2 * a.n.x, 3 * a.n.x))
    THEN Failed("AssertionError")
    ELSE IF v = "Coupling3" /\ (a.J.t # "arr" \/ Len(a.h.a) # 3 * a.n.x
                                \/ Len(a.J.a) # NCouplings(a.n.x))
    THEN Failed("AssertionError")
    ELSE IF a.J.t # "arr" THEN Failed("ValueError")
    ELSE IF a.precompute.x = 1 /\ compute_dJ(v, a.n.x, a.n_cpus).kind = "raise"
    THEN Failed(compute_dJ(v, a.n.x, a.n_cpus).exc)
    ELSE [kind |-> "ok", exc |-> "none",
          obj |-> [v |-> v, n |-> a.n.x,
                   kStates |-> IF v \in FimPotts THEN a.kStates ELSE Num(kStatesOf(v)),
                   eps |-> a.eps.x, hJ |-> a.h.a \o a.J.a,
                   n_cpus |-> a.n_cpus,
                   dJ |-> IF a.precompute.x = 1 THEN DJComputed
                          ELSE IF v \in Potts THEN DJNone ELSE DJZeros,
                   sisj |-> calc_observables(v, a.n.x, a.h.a \o a.J.a),
                   p |-> ising_p(a.h.a \o a.J.a),
                   cache |-> triplets_and_quartets(v, a.n.x),
                   computes |-> IF a.precompute.x = 1 THEN 1 ELSE 0,
                   builds |-> 1]]

\* Class(*pos, **kw)
Construct(v, pos, kw) ==
    LET b == Bind(Signature(v), pos, kw)
    IN  IF b.kind = "raise" THEN Failed(b.exc) ELSE InitBody(v, b.args)

\* __get_state__: LargeClasses add n_cpus, Coupling3 adds k and cuts h at n*kStates
GetState(ob) ==
    LET cut == IF ob.v = "Coupling3" THEN ob.n * ob.kStates.x ELSE ob.n
    IN  [n |-> Num(ob.n), k |-> ob.kStates,
         h |-> Arr(Slice(ob.hJ, 0, cut)), J |-> Arr(Slice(ob.hJ, cut, Len(ob.hJ))),
         dJ |-> ob.dJ, eps |-> Num(ob.eps), n_cpus |-> ob.n_cpus]

\* __set_state__: self.__init__(...) on the arguments each class passes,
\* then self.dJ = state_dict['dJ']
SetState(v, sd) ==
    LET Assigned(r) == IF r.kind = "raise" THEN r ELSE [r EXCEPT !.obj.dJ = sd.dJ]
    IN  Assigned(IF v = "Coupling3"
                 THEN Construct(v, <<sd.n, sd.k>>,
                                [h |-> sd.h, J |-> sd.J, eps |-> sd.eps,
                                 precompute |-> Num(0), n_cpus |-> sd.n_cpus])
                 ELSE IF v \in LargeClasses
                 THEN Construct(v, <<sd.n, sd.h, sd.J, sd.eps>>,
                                [precompute |-> Num(0), n_cpus |-> sd.n_cpus])
                 ELSE Construct(v, <<sd.n, sd.h, sd.J, sd.eps>>, [precompute |-> Num(0)]))


\* the state of the variables that the object-level operations leave alone
Elsewhere ==
    /\ cls = "fim"
    /\ n_cpus = 1
    /\ obj = obj0
    /\ pool = 0
    /\ pools = <<>>
    /\ land = CHOOSE l \in Lands0 : l.dB = 2 /\ l.oB = 0 /\ l.bad = "none"
    /\ pc = "idle"
    /\ call = NoCall
    /\ tasks = NoTasks
    /\ order = <<>>
    /\ hess = zeros
    /\ ret = NoRet
    /\ w = NoW
    /\ tried = <<>>
    /\ ncall = 0
    /\ ret1 = NoRet
    /\ sol = NoSol
    /\ ix = NoIx

NSpin == 2                              \* spins of the systems constructed

Bits(len) == [1 .. len -> {0, 1}]

\* the h and J a constructor call accepts
ValidFields(v, n) ==
    {h \in Bits(NFields(v, n)) :
        /\ v \in FimPotts => AllZero(Slice(h, 0, n))
        /\ v = "Coupling3" => AllZero(Slice(h, 2 * n, 3 * n))}

\* Class(n, h, J, eps=eps, precompute=pre, n_cpus=nc), with kStates=3 passed
\* to the classes that take it
New(v, n, h, J, eps, pre, nc) ==
    Construct(v,
              IF v \in FimPotts THEN <<Num(n), Num(3), Arr(h), Arr(J)>>
              ELSE <<Num(n), Arr(h), Arr(J)>>,
              [eps |-> Num(eps), precompute |-> Num(pre), n_cpus |-> nc])

InitObj ==
    /\ Elsewhere
    /\ \E v \in Variants, n \in 2 .. NSpin, pre \in {0, 1}, nc \in {NoneV, Num(1), Num(2)} :
         \E h \in ValidFields(v, n), J \in Bits(NCouplings(n)) :
            /\ New(v, n, h, J, EpsDefault, pre, nc).kind = "ok"
            /\ o = New(v, n, h, J, EpsDefault, pre, nc).obj
    /\ rs = NoRs

\* state = obj.__get_state__()
Snapshot ==
    /\ rs.pc = "idle"
    /\ rs' = [pc |-> "snap", sd |-> GetState(o)]
    /\ UNCHANGED <<curvature, sol, ix, o>>

\* fresh = Class.__new__(Class); fresh.__set_state__(state)
Restore ==
    /\ rs.pc = "snap"
    /\ rs' = [pc |-> "restored", sd |-> rs.sd, out |-> SetState(o.v, rs.sd)]
    /\ UNCHANGED <<curvature, sol, ix, o>>

\* dJ = obj.compute_dJ()
ComputeDJ ==
    /\ rs.pc = "idle"
    /\ rs' = [pc |-> "computed", out |-> compute_dJ(o.v, o.n, o.n_cpus)]
    /\ o' = [o EXCEPT !.computes = @ + 1,
                      !.cache = IF compute_dJ(o.v, o.n, o.n_cpus).solves > 0
                                THEN AfterReads(@) ELSE @]
    /\ UNCHANGED <<curvature, sol, ix>>

NextObj == Snapshot \/ Restore \/ ComputeDJ

SpecObj == InitObj /\ [][NextObj]_vars

\* C11: for every variant, restoring from the snapshot succeeds and gives an
\* object with the n, hJ, dJ and eps of the snapshotted one, and compute_dJ
\* has not run in the restoration.
C11_RestoreRoundTrip ==
    rs.pc = "restored" =>
        /\ rs.out.kind = "ok"
        /\ rs.out.obj.n = o.n /\ rs.out.obj.hJ = o.hJ
        /\ rs.out.obj.dJ = o.dJ /\ rs.out.obj.eps = o.eps
        /\ rs.out.obj.computes = 0


\* the elementary perturbations of a class: a spin, an ordered pair of
\* distinct spins, a (spin, state) pair, or spins and pairs together
Perturbations(v, n) ==
    LET spins == {<<i, None>> : i \in 0 .. n - 1}
        pairs == {ia \in (0 .. n - 1) \X (0 .. n - 1) : ia[1] # ia[2]}
    IN  IF v \in {"Method1", "Method1a", "Magnetization", "MagnetizationConstant"} THEN spins
        ELSE IF v = "Method3" THEN spins \cup pairs
        ELSE IF v = "Method4a" THEN (0 .. n - 1) \X (0 .. kStatesOf(v) - 1)
        ELSE pairs

\* C12: compute_dJ returns a matrix with hJ.size columns and one row per
\* elementary perturbation, on the serial and on the pool path.
C12_dJShape ==
    rs.pc = "computed" =>
        /\ rs.out.kind = "ok"
        /\ rs.out.cols = Len(o.hJ)
        /\ rs.out.rows = Cardinality(Perturbations(o.v, o.n))


---------------------------------------------------------------------------
(* SpecEig: hess_eig on the decomposition np.linalg.eig returns *)

NEig == 3                               \* rows of the Hessian decomposed
EigVals == {0, 1, 2}                    \* eigval.real, ties among them

Sign(x) == IF x > 0 THEN 1 ELSE IF x < 0 THEN -1 ELSE 0       \* np.sign

\* a column of eigvec: which eigenvector it is (id), the factor it has been
\* multiplied by (f), its product with orientation_vector (first) and the
\* mean of its first n entries (mean)
Column(k, first, mean) == [id |-> k, f |-> 1, first |-> first, mean |-> mean]

\* the signs in the eigenvectors eig returns: -1, 0, 1 in turn for the first
\* entry, 1 and -1 in runs of three for the mean
FirstEntry(k, shift) == ((k + shift) % 3) - 1
MeanEntry(k, shift) == IF ((k + shift) \div 3) % 2 = 0 THEN 1 ELSE -1

Scale(col, s) == [col EXCEPT !.f = @ * s, !.first = @ * s, !.mean = @ * s]

\* eigvec *= np.sign(eigvec.T.dot(orientation_vector))[None,:]
OrientFirst(vec) == [k \in DOMAIN vec |-> Scale(vec[k], Sign(vec[k].first))]

\* eigvec *= np.sign(eigvec[:self.n,:].mean(0))[None,:]
OrientMean(vec) == [k \in DOMAIN vec |-> Scale(vec[k], Sign(vec[k].mean))]

\* np.argsort(eigval): any permutation that puts the values in ascending
\* order (the default sort is not stable)
argsort(val) ==
    {p \in [DOMAIN val -> DOMAIN val] :
        /\ \A j, k \in DOMAIN val : j # k => p[j] # p[k]
        /\ \A k \in 1 .. Len(val) - 1 : val[p[k]] <= val[p[k + 1]]}

\* (slip: the [::-1] is dropped)
NotReversed(p) == p

\* p[::-1]
Reversed(p) == [k \in DOMAIN p |-> p[Len(p) + 1 - k]]

\* eigval[sortix], eigvec[:,sortix]
Take(s, sortix) == [k \in DOMAIN sortix |-> s[sortix[k]]]

hess_eig(eigval, eigvec, ascending) ==
    LET oriented == OrientFirst(eigvec)
        sortix == Reversed(ascending)
    IN  [eigval |-> Take(eigval, sortix), eigvec |-> OrientMean(Take(oriented, sortix))]

InitEig ==
    /\ Elsewhere
    /\ o = New("Method1", 2, <<0, 0>>, <<0>>, EpsDefault, 0, NoneV).obj
    /\ rs = NoRs

\* eigval, eigvec = obj.hess_eig(hess)
HessEig ==
    /\ rs.pc = "idle"
    /\ \E eigval \in [1 .. NEig -> EigVals] :
         \E shift \in 0 .. 5 :
            \E ascending \in argsort(eigval) :
               LET eigvec == [k \in 1 .. NEig |-> Column(k, FirstEntry(k, shift),
                                                        MeanEntry(k, shift))]
               IN  rs' = [pc |-> "eig", eigval |-> eigval, eigvec |-> eigvec,
                          out |-> hess_eig(eigval, eigvec, ascending)]
    /\ UNCHANGED <<curvature, sol, ix, o>>

NextEig == HessEig

SpecEig == InitEig /\ [][NextEig]_vars

C27_ColumnsKept ==
    rs.pc = "eig" => \A k \in 1 .. NEig : rs.out.eigvec[k].f \in {1, -1}


---------------------------------------------------------------------------
(* SpecPert: the perturbations of the observables si and sisj, the        *)
(* jit_observables_after_perturbation functions, one call per step. eps is *)
(* 1/EpsInv and the numbers are integers in units of 1/One, all multiples *)
(* of EpsInv^3, so that the updates are exact.                            *)

NSweep == 4                             \* systems up to this size are perturbed at every spin

\* x - eps*(x - y)
Toward(x, y) == x - ((x - y) \div EpsInv)

\* the entry of sisj the code addresses for the pair of spins i, j
PairIx(i, j, n) == unravel_index(IF i < j THEN <<i, j>> ELSE <<j, i>>, n)

\* delete(list(range(n)), i)
delete(n, i) == [q \in 1 .. n - 1 |-> IF q - 1 < i THEN q - 1 ELSE q]

\* for j in ...: sisj[ijix] = sisj[ijix] - eps*(sisj[ijix] -/+ si[j])
RECURSIVE FieldLoop(_, _, _, _, _, _)
FieldLoop(n, si, sisj, i, sign, js) ==
    IF js = <<>> THEN sisj
    ELSE LET j == Head(js)
             ijix == PairIx(i, j, n)
         IN  FieldLoop(n, si, [sisj EXCEPT ![ijix] = Toward(@, sign * si[j])], i, sign,
                       SubSeq(js, 2, Len(js)))

\* jit_observables_after_perturbation_plus_field (sign = 1), _minus_field (sign = -1)
PerturbField(n, si, sisj, i, sign) ==
    LET si1 == [si EXCEPT ![i] = Toward(@, sign * One)]
    IN  [si |-> si1, sisj |-> FieldLoop(n, si1, sisj, i, sign, delete(n, i))]

\* for j in ...: the entry of the pair (i,j) moves toward 1 if j is a, else
\* toward osisj[jaix]
RECURSIVE MatchLoop(_, _, _, _, _, _, _)
MatchLoop(n, osisj, sisj, i, a, sign, js) ==
    IF js = <<>> THEN sisj
    ELSE LET j == Head(js)
             ijix == PairIx(i, j, n)
             to == IF j = a THEN sign * One ELSE sign * osisj[PairIx(j, a, n)]
         IN  MatchLoop(n, osisj, [sisj EXCEPT ![ijix] = Toward(@, to)], i, a, sign,
                       SubSeq(js, 2, Len(js)))

\* jit_observables_after_perturbation_plus (sign = 1), _minus (sign = -1),
\* the partners visited in the order js
PerturbToward(n, si, sisj, i, a, sign, js) ==
    [si |-> [si EXCEPT ![i] = Toward(@, sign * si[a])],
     sisj |-> MatchLoop(n, sisj, sisj, i, a, sign, js)]

Sizes == (2 .. NSweep) \cup {MaxN}
Spins(n) == IF n <= NSweep THEN 0 .. n - 1 ELSE {1, n - 1}

InitPert ==
    /\ Elsewhere
    /\ o = NoObj
    /\ rs = NoRs

\* jit_observables_after_perturbation_{plus,minus}_field(n, si, sisj, i, eps)
FieldCall ==
    /\ rs.pc = "idle"
    /\ \E n \in Sizes, sign \in {-1, 1}, seed \in {0, 1} :
         \E i \in Spins(n) :
            rs' = [pc |-> "field", n |-> n, i |-> i, a |-> None, sign |-> sign,
                   si |-> Means(n, seed), sisj |-> Correlations(n, seed),
                   out |-> PerturbField(n, Means(n, seed), Correlations(n, seed), i, sign)]
    /\ UNCHANGED <<curvature, sol, ix, o>>

\* jit_observables_after_perturbation_{plus,minus}(n, si, sisj, i, a, eps);
\* rev is what the sweep gives when the partners are visited last to first
TowardCall ==
    /\ rs.pc = "idle"
    /\ \E n \in Sizes, sign \in {-1, 1}, seed \in {0, 1} :
         \E i \in Spins(n), a \in Spins(n) :
            /\ i # a
            /\ rs' = [pc |-> "toward", n |-> n, i |-> i, a |-> a, sign |-> sign,
                      si |-> Means(n, seed), sisj |-> Correlations(n, seed),
                      out |-> PerturbToward(n, Means(n, seed), Correlations(n, seed),
                                            i, a, sign, delete(n, i)),
                      rev |-> PerturbToward(n, Means(n, seed), Correlations(n, seed),
                                            i, a, sign, Reversed(delete(n, i)))]
    /\ UNCHANGED <<curvature, sol, ix, o>>

NextPert == FieldCall \/ TowardCall

SpecPert == InitPert /\ [][NextPert]_vars

\* where the pair (i,j), i<j, stands in combinations(range(n),2)
PairPos(i, j, n) ==
    LET lo == IF i < j THEN i ELSE j
        hi == IF i < j THEN j ELSE i
    IN  lo * n - ((lo * (lo + 1)) \div 2) + (hi - lo - 1)

\* (1-eps)*x + eps*y
Mix(x, y) == (((EpsInv - 1) * x) + y) \div EpsInv

\* C15: the field perturbation of spin i sets si[i] to (1-eps)*si[i] + eps*sign
\* and, for every partner j, sisj[i,j] to (1-eps)*sisj[i,j] + eps*sign*si[j]
\* with the si[j] from before the call; every other entry is unchanged.
C15_FieldPerturbation ==
    rs.pc = "field" =>
        /\ \A k \in 0 .. rs.n - 1 :
              rs.out.si[k] = IF k = rs.i THEN Mix(rs.si[k], rs.sign * One) ELSE rs.si[k]
        /\ \A j \in (0 .. rs.n - 1) \ {rs.i} :
              rs.out.sisj[PairPos(rs.i, j, rs.n)]
                  = Mix(rs.sisj[PairPos(rs.i, j, rs.n)], rs.sign * rs.si[j])
        /\ \A q \in 0 .. NCouplings(rs.n) - 1 :
              (\A j \in (0 .. rs.n - 1) \ {rs.i} : q # PairPos(rs.i, j, rs.n))
                  => rs.out.sisj[q] = rs.sisj[q]


\* C16: in one sweep that moves spin i toward spin a, the new sisj[i,j] of
\* every partner j other than a is (1-eps)*sisj[i,j] + eps*sign*sisj[j,a] with
\* both values from before the sweep, and the result does not depend on the
\* order in which the partners are visited.
C16_PreSweepValues ==
    rs.pc = "toward" =>
        /\ \A j \in (0 .. rs.n - 1) \ {rs.i, rs.a} :
              rs.out.sisj[PairPos(rs.i, j, rs.n)]
                  = Mix(rs.sisj[PairPos(rs.i, j, rs.n)],
                        rs.sign * rs.sisj[PairPos(j, rs.a, rs.n)])
        /\ rs.rev = rs.out

---------------------------------------------------------------------------
(* SpecUse: a constructed object in use: its perturbed observables, the    *)
(* linearized solves built on them, compute_dJ, hess_eig and the           *)
(* curvature calls.                                                        *)

\* self.sisj[:n] is a view of the stored array, x.copy() is a new array
view(x) == [of |-> "self", val |-> x]

copy(x) == [of |-> "new", val |-> x]

\* for j in ...: sisj[ijix] = sisj[ijix] + eps*si[j]
RECURSIVE MeanLoop(_, _, _, _, _)
MeanLoop(n, si, sisj, i, js) ==
    IF js = <<>> THEN sisj
    ELSE LET j == Head(js)
             ijix == PairIx(i, j, n)
         IN  MeanLoop(n, si, [sisj EXCEPT ![ijix] = @ + (si[j] \div EpsInv)], i,
                      SubSeq(js, 2, Len(js)))

\* fim.jit_observables_after_perturbation_plus_mean: si[i] = si[i] + eps
PerturbMean(n, si, sisj, i) ==
    LET si1 == [si EXCEPT ![i] = @ + (One \div EpsInv)]
    IN  [si |-> si1, sisj |-> MeanLoop(n, si1, sisj, i, delete(n, i))]

\* for j in ...: sisj[ijix] = (1-eps)*sisj[ijix] + eps*si[j]
RECURSIVE MeanLoopLarge(_, _, _, _, _)
MeanLoopLarge(n, si, sisj, i, js) ==
    IF js = <<>> THEN sisj
    ELSE LET j == Head(js)
             ijix == PairIx(i, j, n)
         IN  MeanLoopLarge(n, si, [sisj EXCEPT ![ijix] = Mix(@, si[j])], i,
                           SubSeq(js, 2, Len(js)))

\* large_fim.jit_observables_after_perturbation_plus_mean:
\* si[i] = (1-eps)*si[i] + eps
PerturbMeanLarge(n, si, sisj, i) ==
    LET si1 == [si EXCEPT ![i] = Mix(@, One)]
    IN  [si |-> si1, sisj |-> MeanLoopLarge(n, si1, sisj, i, delete(n, i))]

\* self.pairs[key].dot(self.p)
PairDot(ob, key) == ob.cache.pairs[key] * ob.p * (One \div 16)

\* the correlation of spins lo < hi once spin i, one of the two, has moved
\* toward state gamma
StateCorrelation(ob, i, lo, hi, gamma) ==
    LET others == range(kStatesOf(ob.v)) \ {gamma}
        cross(k) == IF i = lo THEN <<k, lo, gamma, hi>> ELSE <<gamma, lo, k, hi>>
        term(k) == (PairDot(ob, cross(k)) \div EpsInv)
                       + Toward(PairDot(ob, <<k, lo, k, hi>>), 0)
        RECURSIVE Sum(_)
        Sum(K) == IF K = {} THEN 0
                  ELSE LET k == CHOOSE x \in K : TRUE IN term(k) + Sum(K \ {k})
    IN  PairDot(ob, <<gamma, lo, gamma, hi>>) + Sum(others)

\* Method4a._observables_after_perturbation(si, sisj, i, gamma, eps)
PerturbState(ob, si, sisj, i, gamma) ==
    LET n == ob.n
        at(g) == g * n + i
        rest == {at(g) : g \in range(kStatesOf(ob.v)) \ {gamma}}
        RECURSIVE Total(_)
        Total(K) == IF K = {} THEN 0
                    ELSE LET k == CHOOSE x \in K : TRUE IN si[k] + Total(K \ {k})
    IN  [si |-> [q \in DOMAIN si |->
                    IF q = at(gamma) THEN si[q] + (Total(rest) \div EpsInv)
                    ELSE IF q \in rest THEN Toward(si[q], 0)
                    ELSE si[q]],
         sisj |-> [q \in DOMAIN sisj |->
                      LET Entry(js) ==
                              IF js = {} THEN sisj[q]
                              ELSE LET j == CHOOSE x \in js : TRUE
                                   IN  StateCorrelation(ob, i, IF i < j THEN i ELSE j,
                                                        IF i < j THEN j ELSE i, gamma)
                      IN  Entry({j \in range(n) \ {i} : q = PairIx(i, j, n)})]]

\* the jit function each class hands its two buffers to
Perturbed(ob, si, sisj, i, a) ==
    IF (ob.v \in {"Method1", "Method3"} /\ a = None) \/ ob.v = "Magnetization"
    THEN PerturbField(ob.n, si, sisj, i, IF ob.v = "Magnetization" THEN 1 ELSE -1)
    ELSE IF ob.v = "Method1a" THEN PerturbMean(ob.n, si, sisj, i)
    ELSE IF ob.v = "MagnetizationConstant" THEN PerturbMeanLarge(ob.n, si, sisj, i)
    ELSE IF ob.v = "Method4a" THEN PerturbState(ob, si, sisj, i, a)
    ELSE PerturbToward(ob.n, si, sisj, i, a, IF ob.v \in {"Method2", "Coupling"} THEN 1 ELSE -1,
                       delete(ob.n, i))

\* observables_after_perturbation(i, a): the buffers siNew and sisjNew, the
\* jit function writing into them, and np.concatenate of the two.  A buffer
\* that is a view of self.sisj takes the stored array along.
observables_after_perturbation(ob, i, a) ==
    LET nf == NFields(ob.v, ob.n)
        siNew == copy(AsArray(Slice(ob.sisj, 0, nf)))
        sisjNew == copy(AsArray(Slice(ob.sisj, nf, Len(ob.sisj))))
        stored(res) == (IF siNew.of = "self" THEN AsSeq(res.si, nf) ELSE Slice(ob.sisj, 0, nf))
                           \o (IF sisjNew.of = "self" THEN AsSeq(res.sisj, NCouplings(ob.n))
                               ELSE Slice(ob.sisj, nf, Len(ob.sisj)))
        Concatenated(res) ==
            [kind |-> "ok", exc |-> "none",
             vec |-> AsSeq(res.si, nf) \o AsSeq(res.sisj, NCouplings(ob.n)),
             tuple |-> ob.v \notin {"Method2", "Method3", "Coupling"},
             self |-> [ob EXCEPT !.sisj = stored(res)]]
    IN  Concatenated(Perturbed(ob, siNew.val, sisjNew.val, i, a))

\* one linearized solve: C from observables_after_perturbation, A from the
\* moments and the cache, C -= self.sisj, dJ = solve(A,C)/eps; the lstsq
\* classes leave the first n unknowns out and put n zeros in front
solve_once(ob, i, a) ==
    LET row == SolveRow(ob.v, ob.n)
        Linearized(c) ==
            LET C == [k \in 1 .. Len(c.vec) |-> c.vec[k] - c.self.sisj[k]]
                dJ == [k \in 1 .. Len(C) |->
                          IF ob.v \in LeastSquares /\ k <= ob.n THEN 0 ELSE EpsInv * C[k]]
            IN  IF row.kind = "raise"
                THEN [kind |-> "raise", exc |-> row.exc, vec |-> <<>>, tuple |-> FALSE,
                      self |-> c.self]
                ELSE [kind |-> "ok", exc |-> "none", vec |-> dJ, tuple |-> TRUE,
                      self |-> [c.self EXCEPT !.cache = AfterReads(@)]]
    IN  Linearized(observables_after_perturbation(ob, i, a))

\* the fields and couplings the objects in use are built with
UseJ(n, bit) == [q \in 1 .. NCouplings(n) |-> IF q = 1 THEN bit ELSE 0]
UseH(v, n) == [q \in 1 .. NFields(v, n) |-> 0]

UseLands == {l \in Lands : l.t[0] = 12 /\ \A L \in 1 .. MaxLevel : l.t[L] = 6}

InitUse ==
    /\ \E v \in Variants, n \in 2 .. NSpin, bit \in {0, 1} :
          LET nc == IF bit = 0 THEN NoneV ELSE Num(1)
              made == New(v, n, UseH(v, n), UseJ(n, bit), EpsDefault, 0, nc)
          IN  /\ made.kind = "ok"
              /\ o = made.obj
              /\ cls = IF v \in LargeClasses THEN "large" ELSE "fim"
              /\ n_cpus = IF bit = 0 THEN 0 ELSE 1
    /\ obj = obj0
    /\ pool = 0
    /\ pools = <<>>
    /\ land \in UseLands
    /\ pc = "idle"
    /\ call = NoCall
    /\ tasks = NoTasks
    /\ order = <<>>
    /\ hess = zeros
    /\ ret = NoRet
    /\ w = NoW
    /\ tried = <<>>
    /\ ncall = 0
    /\ ret1 = NoRet
    /\ sol = NoSol
    /\ ix = NoIx
    /\ rs = NoRs

\* C = obj.observables_after_perturbation(i, a)
Perturb ==
    /\ rs.pc = "idle"
    /\ \E ia \in Perturbations(o.v, o.n) :
          \E r \in {observables_after_perturbation(o, ia[1], ia[2])} :
              /\ rs' = [pc |-> "perturbed", before |-> o, i |-> ia[1], a |-> ia[2],
                        out |-> [r EXCEPT !.self = 0], calls |-> 1]
              /\ o' = r.self
    /\ UNCHANGED <<curvature, sol, ix>>

\* dJ = obj.solve_linearized_perturbation(i, a), one evaluation
SolveOne ==
    /\ rs.pc = "idle"
    /\ \E ia \in Perturbations(o.v, o.n) :
          \E r \in {solve_once(o, ia[1], ia[2])} :
              /\ rs' = [pc |-> "solved", before |-> o, i |-> ia[1], a |-> ia[2],
                        out |-> [r EXCEPT !.self = 0], calls |-> 1]
              /\ o' = r.self
    /\ UNCHANGED <<curvature, sol, ix>>

\* the same call once more, on the object as the first call left it
UseAgain ==
    /\ rs.pc \in {"perturbed", "solved"} /\ rs.calls = 1
    /\ \E r \in {IF rs.pc = "perturbed" THEN observables_after_perturbation(o, rs.i, rs.a)
                ELSE solve_once(o, rs.i, rs.a)} :
           /\ rs' = [rs EXCEPT !.calls = 2, !.out = [r EXCEPT !.self = 0]]
           /\ o' = r.self
    /\ UNCHANGED <<curvature, sol, ix>>

NextUse ==
    \/ pc = "idle" /\ Perturb
    \/ pc = "idle" /\ SolveOne
    \/ UseAgain
    \/ pc = "idle" /\ ComputeDJ
    \/ pc = "idle" /\ HessEig
    \/ rs = NoRs /\ Next

SpecUse == InitUse /\ [][NextUse]_vars

\* C17: after any calls of observables_after_perturbation and of the solve,
\* the stored sisj, hJ and p are what they were before the first call, and a
\* call that returns gives a vector as long as the stored sisj.
C17_Pure ==
    rs.pc \in {"perturbed", "solved"} =>
        /\ o.sisj = rs.before.sisj /\ o.hJ = rs.before.hJ /\ o.p = rs.before.p
        /\ rs.out.kind = "ok" => Len(rs.out.vec) = Len(rs.before.sisj)

\* a solve has run twice, and the perturbed observables differ from the stored
C17_Witness ==
    /\ rs.pc = "solved" /\ rs.calls = 2 /\ rs.out.kind = "ok"
    /\ \E k \in 1 .. Len(rs.out.vec) : rs.out.vec[k] # 0


C30_MeanRaisedByEps ==
    (rs.pc = "perturbed" /\ rs.before.v \in {"Method1a", "MagnetizationConstant"}) =>
        /\ rs.out.vec[rs.i + 1] = rs.before.sisj[rs.i + 1] + (One \div EpsInv)
        /\ \A j \in range(rs.before.n) \ {rs.i} :
              rs.out.vec[rs.before.n + PairPos(rs.i, j, rs.before.n) + 1]
                  = rs.before.sisj[rs.before.n + PairPos(rs.i, j, rs.before.n) + 1]
                        + (rs.before.sisj[j + 1] \div EpsInv)

---------------------------------------------------------------------------
(* SpecEps: the wrapper solve_linearized_perturbation that searches for    *)
(* the step eps, one call of _solve_linearized_perturbation per step.      *)
(* An eps is held as its exponent e, eps = eps0 * 10^e.                     *)

MaxExp == 3                             \* eps stays within eps0 * 10^-MaxExp .. 10^MaxExp

Exps == (0 - MaxExp) .. MaxExp

\* what one _solve_linearized_perturbation gives at an eps: relerr.max() and
\* errflag (2 for an unstable solution, 1 for a badly conditioned A)
Outcomes == {[relerr |-> 1, errflag |-> 0], [relerr |-> 2, errflag |-> 2],
             [relerr |-> 3, errflag |-> 2], [relerr |-> NaN, errflag |-> 1]}

\* < and <= of two floats: false when either is a NaN
FLess(a, b) == ~IsNaN(a) /\ ~IsNaN(b) /\ a < b
FLessEq(a, b) == ~IsNaN(a) /\ ~IsNaN(b) /\ a <= b

NoProbe == [relerr |-> 0, errflag |-> 0]

InitEps ==
    /\ Elsewhere
    /\ o = NoObj
    /\ \E l \in [Exps -> Outcomes] :
          rs = [pc |-> "start", land |-> l, eps |-> <<>>, cur |-> 0, factor |-> 1,
                at0 |-> NoProbe, up |-> NoProbe, down |-> NoProbe, last |-> NoProbe,
                prev |-> 0, errflag |-> 0, dJ |-> 0, converged |-> FALSE,
                prevdJ |-> 0, flagAt |-> 0]

\* dJ, errflag, (A,C), relerr = self._solve_linearized_perturbation(*args, **kwargs)
ProbeHere ==
    /\ rs.pc = "start"
    /\ rs' = [rs EXCEPT !.pc = "up", !.eps = Append(@, 0), !.at0 = rs.land[0],
                        !.last = rs.land[0], !.errflag = rs.land[0].errflag, !.dJ = 0]
    /\ UNCHANGED <<curvature, sol, ix, o>>

\* kwargs['eps'] = eps0*epsChangeFactor; dJUp, errflagUp, _, relerrUp = ...
ProbeUp ==
    /\ rs.pc = "up"
    /\ rs' = [rs EXCEPT !.pc = "down", !.cur = 1, !.eps = Append(@, 1), !.up = rs.land[1]]
    /\ UNCHANGED <<curvature, sol, ix, o>>

\* kwargs['eps'] = eps0/epsChangeFactor; dJDown, errflagDown, _, relerrDown = ...
ProbeDown ==
    /\ rs.pc = "down"
    /\ rs' = [rs EXCEPT !.pc = "choose", !.cur = -1, !.eps = Append(@, -1),
                        !.down = rs.land[-1]]
    /\ UNCHANGED <<curvature, sol, ix, o>>

\* the early return, or the direction: epsChangeFactor, prevRelErr, errflag
Direction ==
    /\ rs.pc = "choose"
    /\ IF FLess(rs.at0.relerr, rs.up.relerr) /\ FLess(rs.at0.relerr, rs.down.relerr)
       THEN rs' = [rs EXCEPT !.pc = "returned"]
       ELSE IF FLessEq(rs.down.relerr, rs.up.relerr)
       THEN rs' = [rs EXCEPT !.pc = "loop", !.factor = -1, !.prev = rs.down.relerr,
                             !.errflag = rs.down.errflag, !.prevdJ = -1, !.flagAt = -1]
       ELSE rs' = [rs EXCEPT !.pc = "loop", !.factor = 1, !.prev = rs.up.relerr,
                             !.errflag = rs.up.errflag, !.prevdJ = 1, !.flagAt = 1]
    /\ UNCHANGED <<curvature, sol, ix, o>>

\* while (not converged) and errflag: kwargs['eps'] *= epsChangeFactor; solve
Further ==
    /\ rs.pc = "loop"
    /\ ~rs.converged /\ rs.errflag # 0
    /\ rs.cur + rs.factor \in Exps
    /\ LET e == rs.cur + rs.factor
           r == rs.land[e]
       IN  rs' = [rs EXCEPT !.cur = e, !.eps = Append(@, e), !.last = r, !.dJ = e,
                            !.errflag = r.errflag, !.flagAt = e,
                            !.prev = IF r.errflag # 0 /\ FLess(r.relerr, rs.prev)
                                     THEN r.relerr ELSE @,
                            !.prevdJ = IF r.errflag # 0 /\ FLess(r.relerr, rs.prev)
                                       THEN e ELSE @,
                            !.converged = ~(r.errflag # 0 /\ FLess(r.relerr, rs.prev))]
    /\ UNCHANGED <<curvature, sol, ix, o>>

\* return dJ, errflag
Stop ==
    /\ rs.pc = "loop"
    /\ ~(~rs.converged /\ rs.errflag # 0)
    /\ rs' = [rs EXCEPT !.pc = "returned"]
    /\ UNCHANGED <<curvature, sol, ix, o>>

NextEps == ProbeHere \/ ProbeUp \/ ProbeDown \/ Direction \/ Further \/ Stop

SpecEps == InitEps /\ [][NextEps]_vars

\* C20: the wrapper solves at eps0, 10*eps0 and eps0/10, takes the direction
\* of the smaller relerr.max(), and its k-th solve after the probes is at
\* eps0*10^(k+1) going up, at eps0/10^(k+1) going down.
C20_OneFactorFurther ==
    rs.pc \in {"choose", "loop", "returned"} =>
        /\ SubSeq(rs.eps, 1, 3) = <<0, 1, -1>>
        /\ \A k \in 4 .. Len(rs.eps) : rs.eps[k] = rs.factor * (k - 2)
        /\ Len(rs.eps) > 3 =>
              (rs.factor = -1 <=> FLessEq(rs.down.relerr, rs.up.relerr))

\* C22: the dJ and the flag the wrapper returns come from one solve, the
\* flag being the one found at the eps of the returned dJ, and when the search
\* stops on a solve that did not improve, the dJ returned is the best one so
\* far (prevdJ) and not the one of that last solve.
C22_FlagOfReturnedDJ ==
    rs.pc = "returned" =>
        /\ rs.flagAt = rs.dJ
        /\ (rs.converged /\ rs.errflag # 0) => rs.dJ = rs.prevdJ

---------------------------------------------------------------------------
(* SpecRows: compute_dJ of the field-perturbation classes of fim.py, one   *)
(* solve per step, then maj_curvature on the dJ it returned.               *)

\* np.abs(dJ[i]).argmax(): the first NaN if there is one, else the first
\* entry of the largest magnitude
argmax(row) ==
    IF \E k \in 1 .. Len(row) : IsNaN(row[k])
    THEN CHOOSE k \in 1 .. Len(row) : IsNaN(row[k]) /\ \A j \in 1 .. k - 1 : ~IsNaN(row[j])
    ELSE CHOOSE k \in 1 .. Len(row) :
             /\ \A j \in 1 .. Len(row) : Abs(row[j]) <= Abs(row[k])
             /\ \A j \in 1 .. k - 1 : Abs(row[j]) < Abs(row[k])

\* epsdJ_ = (newhJ-hJ[mxix]) / dJ[i][mxix] is a NaN when dJ[i][mxix] is a NaN or 0
StepIsNaN(row) == IsNaN(row[argmax(row)]) \/ row[argmax(row)] = 0

\* dJ[i]+dJ[j]
RowSum(a, b) == [k \in 1 .. Len(a) |-> FAdd(a[k], b[k])]

\* diag(i) and off_diag((i,j)) of _maj_curvature: if np.isnan(epsdJ_): return 0.
diag_at(dJ, i, L, h) == IF StepIsNaN(dJ[i + 1]) THEN 0 ELSE diag("maj", i, L, h)

off_diag_at(dJ, c, L, h) ==
    IF StepIsNaN(RowSum(dJ[c[1] + 1], dJ[c[2] + 1])) THEN 0 ELSE off_diag("maj", c, L, h)

MajCall == [NoCall EXCEPT !.op = "maj", !.check_stability = TRUE]

\* _maj_curvature(dJ=dJ, check_stability=False) of fim.py on the serial path,
\* at the step epsdJ (h = 0) or epsdJ/2 (h = 1)
maj_at(dJ, h) ==
    LET Checked(hh) == IF HasNaN(hh) \/ HasInf(hh) THEN Raise("AssertionError")
                       ELSE Return(hh, None, NoneM, None)
    IN  Checked(Finish(MajCall, "fim", "serial",
                       SerialFill(MajCall, [i \in Idx |-> diag_at(dJ, i, 0, h)],
                                  [x \in combinations |-> off_diag_at(dJ, x, 0, h)])))

\* maj_curvature(dJ=dJ, full_output=True): the first evaluation with its
\* stability check; on flag 0 the loop is not entered
maj_curvature(dJ) ==
    LET Flagged(r, err) ==
            Return(r.hess, IF \E x \in Cells : Exceeds(err[x], r.hess[x]) THEN 1 ELSE 0,
                   err, None)
        Compared(r, r2) ==
            IF r.kind = "raise" THEN r
            ELSE IF r2.kind = "raise" THEN r2
            ELSE Flagged(r, ErrOf(MajCall, "fim", r.hess, r2.hess))
    IN  Compared(maj_at(dJ, 0), maj_at(dJ, 1))

InitRows ==
    /\ Elsewhere
    /\ o = NoObj
    /\ \E v \in {"Method1", "Method1a"} :
          rs = [pc |-> "rows", v |-> v, dJ |-> <<>>, flags |-> <<>>, errflag |-> None,
                out |-> NoneM, ret |-> NoRet]

\* dJ[i], errflag = self.solve_linearized_perturbation(i, p=p, sisj=sisj)
RowSolve ==
    /\ rs.pc = "rows" /\ Len(rs.dJ) < NPert
    /\ \E c \in Conds :
          \E r \in {SolveNoCheck(rs.v, c, Exact)} :
             rs' = [rs EXCEPT !.dJ = Append(@, r.dJ), !.flags = Append(@, r.errflag),
                              !.errflag = r.errflag]
    /\ UNCHANGED <<curvature, sol, ix, o>>

\* return dJ
ReturnDJ ==
    /\ rs.pc = "rows" /\ Len(rs.dJ) = NPert
    /\ rs' = [rs EXCEPT !.pc = "returned", !.out = rs.dJ]
    /\ UNCHANGED <<curvature, sol, ix, o>>

\* hess, errflag, err = obj.maj_curvature(dJ=dJ, full_output=True)
Curve ==
    /\ rs.pc = "returned"
    /\ rs' = [rs EXCEPT !.pc = "curved", !.ret = maj_curvature(rs.out)]
    /\ UNCHANGED <<curvature, sol, ix, o>>

NextRows == RowSolve \/ ReturnDJ \/ Curve

SpecRows == InitRows /\ [][NextRows]_vars

\* the solve of row k came back with a non-zero flag or a NaN-filled direction
RowFailed(k) == rs.flags[k] # 0 \/ \E j \in 1 .. Len(rs.dJ[k]) : IsNaN(rs.dJ[k][j])

RowIsNaN(k) == \E j \in 1 .. Len(rs.dJ[k]) : IsNaN(rs.dJ[k][j])

\* the curvature call raised, or returned a non-zero flag or a NaN
CurvatureTells ==
    rs.ret.kind = "raise" \/ Truthy(rs.ret.errflag) \/ HasNaN(rs.ret.hess)

\* C24: when a solve of compute_dJ failed, the dJ that compute_dJ returned
\* holds a NaN or the curvature call that follows tells (exception, flag or
\* NaN), and a NaN-filled row never ends as finite Hessian entries returned
\* with flag 0.
C24_FailureObservable ==
    rs.pc = "curved" =>
        /\ \A k \in 1 .. NPert : RowFailed(k) =>
              ((\E q \in 1 .. NPert : \E j \in 1 .. Len(rs.out[q]) : IsNaN(rs.out[q][j]))
                  \/ CurvatureTells)
        /\ \A k \in 1 .. NPert : RowIsNaN(k) => CurvatureTells

---------------------------------------------------------------------------
(* SpecLive: the adaptive searches of the curvature calls and of the solve *)
(* wrapper under weak fairness: a call that is running takes its next      *)
(* step. The Python interpreter runs a started call to its return.         *)

\* the landscapes of the solve wrapper that are flat above 10*eps0
InitLive ==
    \/ Init
    \/ InitEps /\ \A e \in Exps : e > 1 => rs.land[e] = rs.land[1]

\* one call in a behaviour: the steps of Spec but CallAgain, and NextEps
NextLive ==
    \/ rs = NoRs /\ \E c \in AllCalls(cls) : Call(c)
    \/ First
    \/ Loop
    \/ LoopEnd
    \/ Finally
    \/ DJMap
    \/ DJExit
    \/ NextEps

\* an estimator evaluation of the wrapper is due: the first one, or the
\* loop condition (not converged) and errflag holds
Searching == pc = "first" \/ (pc = "loop" /\ ~w.converged /\ Truthy(w.errflag))

\* WF_vars(First \/ Loop) is written out with Searching for its ENABLED:
\* an evaluation is a total function of the state, so the step is possible
\* whenever it is due
SpecLive ==
    /\ InitLive /\ [][NextLive]_vars
    /\ ([]<>~Searching \/ []<><<First \/ Loop>>_vars)
    /\ WF_vars(LoopEnd) /\ WF_vars(Finally)
    /\ WF_vars(NextEps)

\* the loop of a curvature call goes on after an evaluation
Continues ==
    /\ pc = "loop" /\ pc' = "loop" /\ Len(tried') > Len(tried)
    /\ ~w'.converged /\ Truthy(w'.errflag)

\* the loop of the solve wrapper goes on after a solve
ContinuesEps ==
    /\ rs.pc = "loop" /\ rs'.pc = "loop" /\ Len(rs'.eps) > Len(rs.eps)
    /\ ~rs'.converged /\ rs'.errflag # 0

\* C25: a search goes on only after an evaluation with a non-zero flag and
\* a residual strictly smaller than every one before it, no search is cut
\* short by the bound on its steps, and every call that has started its
\* search returns or raises.
C25_SearchTerminates ==
    /\ [][Continues =>
             \A k \in 1 .. Len(tried) : tried'[Len(tried')].resid < tried[k].resid]_vars
    /\ [][ContinuesEps => FLess(rs'.last.relerr, rs.prev)]_vars
    /\ [](Searching /\ pc = "loop" => w.lvl <= MaxLevel)
    /\ [](rs.pc = "loop" /\ ~rs.converged /\ rs.errflag # 0 => rs.cur + rs.factor \in Exps)
    /\ (pc = "first") ~> (pc = "done")
    /\ (rs.pc = "start") ~> (rs.pc = "returned")

\* a curvature call returned after its loop went on once and then met a
\* residual that was not smaller
C25_Witness ==
    /\ pc = "done" /\ ret.kind = "ok" /\ call.check_stability
    /\ Len(tried) = 3 /\ w.converged
    /\ tried[2].resid < tried[1].resid /\ ~(tried[3].resid < tried[2].resid)

---------------------------------------------------------------------------
(* SpecKeys: the matrix A of a solve of a binary class built row by row,   *)
(* every entry of the cache it needs looked up by its key.                 *)

MaxKeyN == 5                            \* largest system size whose A is built

BinaryClasses == Variants \ Potts

\* for klcount,(k,l) in enumerate(combinations(range(n),2)): self.triplets[(i,k,l)]
MeanRowKeys(i, n) == {<<i, c[1], c[2]>> : c \in Combos(n)}

\* for k in range(n): self.triplets[(i,j,k)]
PairRowTriplets(ij, n) == {<<ij[1], ij[2], k>> : k \in range(n)}

\* for klcount,(k,l) in enumerate(combinations(range(n),2)): self.quartets[(i,j,k,l)]
PairRowQuartets(ij, n) == {<<ij[1], ij[2], c[1], c[2]>> : c \in Combos(n)}

InitKeys ==
    /\ Elsewhere
    /\ o = NoObj
    /\ \E v \in BinaryClasses, n \in 2 .. MaxKeyN :
          rs = [pc |-> "means", v |-> v, n |-> n, cache |-> triplets_and_quartets(v, n),
                i |-> 0, ij |-> <<0, 1>>, reads |-> 0, key |-> <<>>]

\* mean constraints: row i of A, or the KeyError of its first missing key
MeanRow ==
    /\ rs.pc = "means"
    /\ IF MeanRowKeys(rs.i, rs.n) \subseteq DOMAIN rs.cache.triplets
       THEN rs' = [rs EXCEPT !.i = @ + 1,
                             !.reads = @ + Cardinality(MeanRowKeys(rs.i, rs.n)),
                             !.pc = IF rs.i + 1 < rs.n THEN "means" ELSE "pairs"]
       ELSE \E key \in MeanRowKeys(rs.i, rs.n) \ DOMAIN rs.cache.triplets :
               rs' = [rs EXCEPT !.pc = "KeyError", !.key = key]
    /\ UNCHANGED <<curvature, sol, ix, o>>

\* pair constraints: row n+ijcount of A, or the KeyError of a missing key
PairRow ==
    /\ rs.pc = "pairs"
    /\ IF /\ PairRowTriplets(rs.ij, rs.n) \subseteq DOMAIN rs.cache.triplets
          /\ PairRowQuartets(rs.ij, rs.n) \subseteq DOMAIN rs.cache.quartets
       THEN rs' = [rs EXCEPT !.ij = IF HasNext(rs.ij, rs.n) THEN NextComb(rs.ij, rs.n) ELSE @,
                             !.reads = @ + rs.n + Cardinality(Combos(rs.n)),
                             !.pc = IF HasNext(rs.ij, rs.n) THEN "pairs" ELSE "built"]
       ELSE \E key \in (PairRowTriplets(rs.ij, rs.n) \ DOMAIN rs.cache.triplets)
                          \cup (PairRowQuartets(rs.ij, rs.n) \ DOMAIN rs.cache.quartets) :
               rs' = [rs EXCEPT !.pc = "KeyError", !.key = key]
    /\ UNCHANGED <<curvature, sol, ix, o>>

NextKeys == MeanRow \/ PairRow

SpecKeys == InitKeys /\ [][NextKeys]_vars

\* C28: the cache of a binary class of any size n >= 2 holds a triplet for
\* every (spin, pair) key in both layouts and a quartet for every
\* (pair, pair) key, and no lookup of a solve that builds A fails.
C28_KeysPresent ==
    /\ rs.pc # "KeyError"
    /\ \A i \in range(rs.n) : \A c \in Combos(rs.n) :
          /\ <<i, c[1], c[2]>> \in DOMAIN rs.cache.triplets
          /\ <<c[1], c[2], i>> \in DOMAIN rs.cache.triplets
    /\ \A c \in Combos(rs.n) : \A d \in Combos(rs.n) :
          <<c[1], c[2], d[1], d[2]>> \in DOMAIN rs.cache.quartets

\* the A of a system of three or more spins has been built, the last pair
\* row from the keys of the last pair
C28_Witness ==
    /\ rs.pc = "built" /\ rs.n >= 3 /\ rs.ij = <<rs.n - 2, rs.n - 1>>
    /\ rs.reads = (rs.n + NCouplings(rs.n)) * NCouplings(rs.n) + NCouplings(rs.n) * rs.n

---------------------------------------------------------------------------
(* SpecCoarse: the coarse-graining index an object builds at construction  *)
(* and p2pk on a distribution p over all states, one p(k) per step. The    *)
(* probabilities are whole numbers of a unit.                              *)

MaxCoarseN == 3                         \* largest system size coarse-grained

\* bin_states(n, True): all the states of n spins, entries -1 and 1
bin_states(n) ==
    [s \in 1 .. 2 ^ n |-> [q \in 1 .. n |-> IF ((s - 1) \div 2 ^ (n - q)) % 2 = 1 THEN 1 ELSE -1]]

\* np.abs(self.allStates.sum(1))
AbsSums(allStates) == [s \in DOMAIN allStates |-> Abs(Weight(allStates[s]))]

\* the position of y among the sorted distinct values of x
Rank(x, y) == Cardinality({z \in {x[s] : s \in DOMAIN x} : z < y})

\* np.unique(x, return_inverse=True): the sorted distinct values, and for
\* every element the index of its value among them
unique(x) ==
    [uix |-> [k \in 1 .. Cardinality({x[s] : s \in DOMAIN x}) |->
                 CHOOSE y \in {x[s] : s \in DOMAIN x} : Rank(x, y) = k - 1],
     invix |-> [s \in DOMAIN x |-> Rank(x, x[s])]]

\* (slip: the mask takes every class up to i)
MaskedUpTo(invix, i, s) == invix[s] <= i

\* invix==i
Masked(invix, i, s) == invix[s] = i

\* p[invix==i].sum(), over the first s elements
RECURSIVE MaskedSum(_, _, _, _)
MaskedSum(p, invix, i, s) ==
    IF s = 0 THEN 0
    ELSE (IF Masked(invix, i, s) THEN p[s] ELSE 0) + MaskedSum(p, invix, i, s - 1)

InitCoarse ==
    /\ Elsewhere
    /\ o = NoObj
    /\ \E n \in 2 .. MaxCoarseN :
          \E p \in [1 .. 2 ^ n -> {0, 1}] :
             \E u \in {unique(AbsSums(bin_states(n)))} :
                rs = [pc |-> "p2pk", n |-> n, p |-> p, coarseUix |-> u.uix,
                      coarseInvix |-> u.invix, pk |-> [k \in 1 .. Len(u.uix) |-> 0],
                      i |-> 0]

\* for i in range(len(uix)): pk[i] = p[invix==i].sum()
PkStep ==
    /\ rs.pc = "p2pk"
    /\ rs.i < Len(rs.coarseUix)
    /\ rs' = [rs EXCEPT !.pk[rs.i + 1] = MaskedSum(rs.p, rs.coarseInvix, rs.i, Len(rs.p)),
                        !.i = @ + 1]
    /\ UNCHANGED <<curvature, sol, ix, o>>

\* return pk
PkReturn ==
    /\ rs.pc = "p2pk"
    /\ rs.i = Len(rs.coarseUix)
    /\ rs' = [rs EXCEPT !.pc = "returned"]
    /\ UNCHANGED <<curvature, sol, ix, o>>

NextCoarse == PkStep \/ PkReturn

SpecCoarse == InitCoarse /\ [][NextCoarse]_vars

\* the sum of p over the states in S
RECURSIVE SumOn(_, _)
SumOn(p, S) ==
    IF S = {} THEN 0
    ELSE LET s == CHOOSE t \in S : TRUE IN p[s] + SumOn(p, S \ {s})

\* the states whose spin sum has the absolute value a
ClassOf(n, a) == {s \in 1 .. 2 ^ n : Abs(Weight(bin_states(n)[s])) = a}

\* C29: every state is in exactly one coarse class, the class of the
\* absolute value of its spin sum; p(k) is the sum of p over the states of
\* class k; and the p(k) sum to what p sums to.
C29_Partition ==
    rs.pc = "returned" =>
        /\ \A s \in 1 .. 2 ^ rs.n :
              /\ Cardinality({k \in 1 .. Len(rs.coarseUix) :
                                 rs.coarseUix[k] = Abs(Weight(bin_states(rs.n)[s]))}) = 1
              /\ rs.coarseUix[rs.coarseInvix[s] + 1] = Abs(Weight(bin_states(rs.n)[s]))
        /\ \A k \in 1 .. Len(rs.pk) : rs.pk[k] = SumOn(rs.p, ClassOf(rs.n, rs.coarseUix[k]))
        /\ Weight(rs.pk) = SumOn(rs.p, 1 .. 2 ^ rs.n)

\* three spins, classes |sum| = 1 and 3, both with states of non-zero
\* probability, and not all of the probability in one class
C29_Witness ==
    /\ rs.pc = "returned" /\ rs.n = 3 /\ rs.coarseUix = <<1, 3>>
    /\ rs.pk[1] = 2 /\ rs.pk[2] = 1

=============================================================================
